---- MODULE Spec2Model ----
(***************************************************************************)
(* flow-conductor: a RequestChain (pipeline engine) that runs its stages   *)
(* in order through a RequestAdapter, with error / result / finish        *)
(* handlers, nested chains, and the adapter's URL validation.              *)
(*                                                                         *)
(* One action of the engine is one synchronous run of the JavaScript code  *)
(* between two suspension points (await).  Values are sequences of string  *)
(* tokens that record how a value was derived.                             *)
(***************************************************************************)
EXTENDS Integers, Sequences, FiniteSets, TLC

VARIABLES chains, calls, log, adapters, started

vars == <<chains, calls, log, adapters, started>>

\* ---------------------------------------------------------------- bounds
MaxStages == 2
MaxCalls == 2

\* ---------------------------------------------------------------- values
Undefined == << >>

\* `if (this.resultHandler && result)`: JavaScript truthiness of a value
Truthy(v) == v # Undefined

\* ------------------------------------------------------------- URL guard
IPv4(n, a, b, c, d) == [name |-> n, kind |-> "v4", ip |-> <<a, b, c, d>>]
HostName(n) == [name |-> n, kind |-> "name", ip |-> <<0, 0, 0, 0>>]
\* an IPv6 literal; ip[1] holds its first 16-bit group, ip[2] = 1 for ::1
IPv6(n, first, loop) == [name |-> n, kind |-> "v6", ip |-> <<first, loop, 0, 0>>]

ExampleHost == HostName("example.com")
LoopbackHost == IPv4("127.0.0.1", 127, 0, 0, 1)

Hosts ==
  { ExampleHost, LoopbackHost,
    IPv4("127.200.3.4", 127, 200, 3, 4),
    IPv4("128.0.0.1", 128, 0, 0, 1),
    IPv4("10.1.2.3", 10, 1, 2, 3),
    IPv4("172.16.0.9", 172, 16, 0, 9),
    IPv4("172.31.255.1", 172, 31, 255, 1),
    IPv4("172.32.0.1", 172, 32, 0, 1),
    IPv4("192.168.1.1", 192, 168, 1, 1),
    IPv4("169.254.169.254", 169, 254, 169, 254),
    IPv4("8.8.8.8", 8, 8, 8, 8),
    IPv6("::1", 0, 1),
    IPv6("fd00::1", 64768, 0),
    IPv6("2001:db8::1", 8193, 0) }

Schemes == {"http", "https", "ftp", "file"}

Url(s, h) == [scheme |-> s, host |-> h]

DefaultOptions ==
  [allowLocalhost |-> FALSE, allowPrivateNetworks |-> FALSE, allowedHosts |-> {}]

IsLoopback(h) ==
  \/ h.kind = "v4" /\ h.ip[1] = 127
  \/ h.kind = "v6" /\ h.ip[2] = 1

IsPrivate(h) ==
  \/ h.kind = "v4" /\ h.ip[1] = 10
  \/ h.kind = "v4" /\ h.ip[1] = 172 /\ h.ip[2] >= 16 /\ h.ip[2] <= 31
  \/ h.kind = "v4" /\ h.ip[1] = 192 /\ h.ip[2] = 168
  \/ h.kind = "v4" /\ h.ip[1] = 169 /\ h.ip[2] = 254
  \/ h.kind = "v6" /\ h.ip[1] >= 64512 /\ h.ip[1] <= 65023

\* "ok", or the reason for which validateUrl throws an SSRFError
validateUrl(url, options) ==
  IF url.scheme \notin {"http", "https"} THEN "scheme"
  ELSE IF url.host.name \in options.allowedHosts THEN "ok"
  ELSE IF IsLoopback(url.host) /\ ~options.allowLocalhost THEN "loopback"
  ELSE IF IsPrivate(url.host) /\ ~options.allowPrivateNetworks THEN "private"
  ELSE "ok"

SSRFError(reason, url) == <<"SSRFError", reason, url.host.name>>

\* --------------------------------------------------------------- adapter
\* a request descriptor: the url and what the config factory put into it
Config(url, path) == [url |-> url, path |-> path]
NoConfig == Config(Url("", HostName("")), Undefined)

Flat(requestConfig) ==
  <<requestConfig.url.scheme, requestConfig.url.host.name>> \o requestConfig.path

\* what the transport answers to a request, and how it fails
ResponseOf(requestConfig, body) == Flat(requestConfig) \o <<body>>
Response(requestConfig) == ResponseOf(requestConfig, "response")
\* the bodies a server may answer the same request with at different times
Bodies == {"response", "response2"}
TransportError == <<"fake error message">>

\* transport failures by kind: a connection-level failure without an HTTP
\* status, a failure that carries a status, a failure of neither kind
NetworkError == <<"NetworkError", "ECONNRESET">>
HttpError(status) == <<"HttpError", status>>
DecodeError == <<"DecodeError", "invalid body">>
TransportErrors ==
  {NetworkError, HttpError("503"), HttpError("404"), DecodeError}

\* ------------------------------------------------------------ retry utils
getErrorStatus(error) == IF error[1] = "HttpError" THEN error[2] ELSE ""
isNetworkError(error) == error[1] = "NetworkError" /\ getErrorStatus(error) = ""
retryOnStatusCodes(statusCodes, error) == getErrorStatus(error) \in statusCodes
retryOnNetworkOrStatusCodes(statusCodes, error) ==
  isNetworkError(error) \/ retryOnStatusCodes(statusCodes, error)

DefaultRetryStatusCodes == {"429", "500", "502", "503", "504"}

defaultRetryCondition_NetworkOnly(error) == isNetworkError(error)

defaultRetryCondition(error) ==
  retryOnNetworkOrStatusCodes(DefaultRetryStatusCodes, error)

\* RequestAdapter.executeRequest: the guard, then createRequest.
\* created = the createRequest invocations made (none or one)
\* validated = the urls handed to validateUrl
executeRequest_NoGuard(requestConfig, options) ==
  [threw |-> FALSE, error |-> Undefined, validated |-> << >>,
   created |-> <<requestConfig>>]

executeRequest_CreateFirst(requestConfig, options) ==
  LET verdict == validateUrl(requestConfig.url, options)
  IN [threw |-> verdict # "ok",
      error |-> IF verdict # "ok" THEN SSRFError(verdict, requestConfig.url)
                ELSE Undefined,
      validated |-> <<requestConfig>>, created |-> <<requestConfig>>]

executeRequest_DefaultOptions(requestConfig, options) ==
  LET verdict == validateUrl(requestConfig.url, DefaultOptions)
  IN IF verdict # "ok"
     THEN [threw |-> TRUE, error |-> SSRFError(verdict, requestConfig.url),
           validated |-> <<requestConfig>>, created |-> << >>]
     ELSE [threw |-> FALSE, error |-> Undefined,
           validated |-> <<requestConfig>>, created |-> <<requestConfig>>]

executeRequest(requestConfig, options) ==
  LET verdict == validateUrl(requestConfig.url, options)
  IN IF verdict # "ok"
     THEN [threw |-> TRUE, error |-> SSRFError(verdict, requestConfig.url),
           validated |-> <<requestConfig>>, created |-> << >>]
     ELSE [threw |-> FALSE, error |-> Undefined,
           validated |-> <<requestConfig>>, created |-> <<requestConfig>>]

\* RequestAdapter.getResult is the identity; TestAdapter tags the result
getResult(kind, result) ==
  IF kind = "test" THEN Append(result, "customParam") ELSE result

\* ---------------------------------------------------------------- stages
PublicUrl == Url("http", ExampleHost)
LoopbackUrl == Url("http", LoopbackHost)

\* a stage literal: hasConfig / hasRequest are the keys it carries; config is
\* "literal", "factory" or "throws" (a factory that throws); mapper is
\* "none", "plain", "promise" (an async mapper), "undefined" (a mapper that
\* returns undefined) or "throws"; request names the
\* nested chain; precondition is "none", "true" or "false" (what the predicate
\* returns); retryPolicy is NoRetry or a RetryConfig
NoRetry ==
  [enabled |-> FALSE, maxRetries |-> 0, retryDelay |-> 0,
   exponentialBackoff |-> FALSE, retryCondition |-> "default"]

RetryConfig(maxRetries, retryDelay, exponentialBackoff, retryCondition) ==
  [enabled |-> TRUE, maxRetries |-> maxRetries, retryDelay |-> retryDelay,
   exponentialBackoff |-> exponentialBackoff, retryCondition |-> retryCondition]

Stage(hasConfig, hasRequest, config, url, mapper, request) ==
  [hasConfig |-> hasConfig, hasRequest |-> hasRequest, config |-> config,
   url |-> url, mapper |-> mapper, request |-> request, result |-> Undefined,
   precondition |-> "none", retryPolicy |-> NoRetry]

WithPrecondition(stage, precondition) ==
  [stage EXCEPT !.precondition = precondition]
WithRetryPolicy(stage, retryPolicy) == [stage EXCEPT !.retryPolicy = retryPolicy]

RequestStage(config, url, mapper) == Stage(TRUE, FALSE, config, url, mapper, "")
ManagerStage(request, mapper) == Stage(FALSE, TRUE, "", PublicUrl, mapper, request)
UnknownStage == Stage(FALSE, FALSE, "", PublicUrl, "none", "")

\* the stage literals a caller hands to begin() and next()
StageMenu ==
  { RequestStage("literal", PublicUrl, "none"),
    RequestStage("literal", PublicUrl, "throws"),
    RequestStage("literal", LoopbackUrl, "none"),
    RequestStage("factory", PublicUrl, "none"),
    RequestStage("factory", PublicUrl, "plain"),
    RequestStage("throws", PublicUrl, "none"),
    ManagerStage("inner", "plain"),
    UnknownStage }

isPipelineRequestStage_Default(stage) == ~stage.hasRequest

isPipelineRequestStage(stage) == stage.hasConfig
isPipelineManagerStage(stage) == stage.hasRequest

\* typeof config === "function" ? config(previousResult) : config
ResolveConfig(stage, previousResult) ==
  IF stage.config = "factory"
  THEN Config(stage.url, previousResult \o <<"cfg">>)
  ELSE Config(stage.url, Undefined)

ConfigError == <<"config factory error">>
MapperError == <<"mapper error">>
UnknownTypeError == <<"Unknown type">>
MapperOut(requestResult) == Append(requestResult, "mapped")

\* requestEntity.mapper(requestResult): the mapped value, or a promise of it
Mapper(requestEntity, requestResult) ==
  IF requestEntity.mapper = "promise"
  THEN <<"Promise">> \o MapperOut(requestResult)
  ELSE IF requestEntity.mapper = "undefined" THEN Undefined
  ELSE MapperOut(requestResult)

\* `await x`: the value a promise resolves to, or x itself
Await_NoUnwrap(x) == x

Await(x) == IF x # << >> /\ Head(x) = "Promise" THEN Tail(x) ELSE x

\* ----------------------------------------------------------------- state
ChainIds == {"outer", "inner"}
AdapterIds == {"A1", "A2"}
CallIds == {"top", "top2", "nested"}
TopCalls == {"top"}
ChildOf(k) == "nested"

FreeCall ==
  [chain |-> "", mode |-> "", pc |-> "free", i |-> 0, results |-> << >>,
   pending |-> Undefined, requestResult |-> Undefined, config |-> NoConfig,
   status |-> "none",
   value |-> Undefined, values |-> << >>, isList |-> FALSE,
   attempt |-> 0, retries |-> << >>, detached |-> 0]

InFlight(k) == calls[k].pc \notin {"free", "settled"}
Quiescent(c) == \A k \in CallIds : InFlight(k) => calls[k].chain # c

Event(k, ev, i, a, v, vs) ==
  [call |-> k, ev |-> ev, i |-> i, a |-> a, v |-> v, vs |-> vs]

\* a synchronous run works on w = [chains, calls, log]
Emit(w, k, ev, i, a, v) ==
  [w EXCEPT !.log = Append(@, Event(k, ev, i, a, v, << >>))]
EmitList(w, k, ev, vs) ==
  [w EXCEPT !.log = Append(@, Event(k, ev, 0, "", Undefined, vs))]
Suspend(w, k, pc, pending) ==
  [w EXCEPT !.calls[k].pc = pc, !.calls[k].pending = pending]

\* ------------------------------------------------ the engine's sync runs
RECURSIVE executeAllRequests(_, _)

\* execute() / executeAll() up to its first await; the log keeps the events
\* of the latest call of each slot only
beginExecute(w, k, c, mode) ==
  executeAllRequests(
    [w EXCEPT !.calls[k] =
                [FreeCall EXCEPT !.chain = c, !.mode = mode, !.pc = "running",
                                 !.i = 1],
              !.log = SelectSeq(@, LAMBDA e : e.call # k)],
    k)

\* a throw inside executeSingle or a rejected await: the stage has failed and
\* the failure leaves executeAllRequests
StageFailed_Continue(w, k, i, error) ==
  executeAllRequests(
    [Emit(w, k, "fail", i, "", error) EXCEPT !.calls[k].i = i + 1], k)

StageFailed_ClearCache(w, k, i, error) ==
  Suspend([Emit(w, k, "fail", i, "", error)
             EXCEPT !.chains[w.calls[k].chain].requestList[i].result = Undefined],
          k, "rejected", error)

StageFailed(w, k, i, error) ==
  Suspend(Emit(w, k, "fail", i, "", error), k, "rejected", error)

\* the retry policy evaluator --------------------------------------------
\* retryPolicy.retryCondition is the default classifier or a caller's
\* predicate ("always": () => true)
retryCondition(retryPolicy, error) ==
  IF retryPolicy.retryCondition = "always" THEN TRUE
  ELSE defaultRetryCondition(error)

\* attempting(n) has failed: retry, or terminal failed
shouldRetry_OneMore(retryPolicy, n, error) ==
  /\ retryPolicy.enabled
  /\ retryCondition(retryPolicy, error)
  /\ n <= retryPolicy.maxRetries

shouldRetry(retryPolicy, n, error) ==
  /\ retryPolicy.enabled
  /\ retryCondition(retryPolicy, error)
  /\ n < retryPolicy.maxRetries

\* delay = retryDelay * (exponentialBackoff ? 2^n : 1)
calculateDelay_Fixed(retryPolicy, n) == retryPolicy.retryDelay

calculateDelay(retryPolicy, n) ==
  retryPolicy.retryDelay * (IF retryPolicy.exponentialBackoff THEN 2 ^ n ELSE 1)

\* the dispatch of stage i has failed with a transport failure: suspend for
\* the backoff delay, or hand the failure to the engine's failure path
DispatchFailed(w, k, i, error) ==
  LET retryPolicy == w.chains[w.calls[k].chain].requestList[i].retryPolicy
      n == w.calls[k].attempt
  IN IF shouldRetry(retryPolicy, n, error)
     THEN [Emit(w, k, "retry", i, "", error)
             EXCEPT !.calls[k].pc = "awaitRetryDelay",
                    !.calls[k].pending = error,
                    !.calls[k].retries =
                      Append(@, [i |-> i, n |-> n, error |-> error,
                                 delay |-> calculateDelay(retryPolicy, n)])]
     ELSE StageFailed(w, k, i, error)

\* await this.adapter.executeRequest(requestConfig)
Dispatch_Direct(requestConfig, a) ==
  [threw |-> FALSE, error |-> Undefined, validated |-> << >>,
   created |-> <<requestConfig>>]

Dispatch(requestConfig, a) == executeRequest(requestConfig, adapters[a].options)

RECURSIVE EmitAll(_, _, _, _, _, _)
EmitAll(w, k, ev, i, a, configs) ==
  IF configs = << >> THEN w
  ELSE EmitAll(Emit(w, k, ev, i, a, Flat(Head(configs))), k, ev, i, a, Tail(configs))

executeSingle_RetryAll(w, k, i, previousResult) ==
  LET c == w.calls[k].chain
      requestEntity == w.chains[c].requestList[i]
      a == w.chains[c].adapter
  IN IF isPipelineRequestStage(requestEntity)
     THEN IF requestEntity.config = "throws"
          THEN DispatchFailed(Emit(w, k, "config", i, "", previousResult),
                              k, i, ConfigError)
          ELSE LET requestConfig == ResolveConfig(requestEntity, previousResult)
                   w1 == IF requestEntity.config = "factory"
                         THEN Emit(w, k, "config", i, "", previousResult)
                         ELSE w
                   r == Dispatch(requestConfig, a)
                   w2 == EmitAll(w1, k, "validateUrl", i, a, r.validated)
                   w3 == EmitAll(w2, k, "createRequest", i, a, r.created)
               IN IF r.threw
                  THEN DispatchFailed(w3, k, i, r.error)
                  ELSE [w3 EXCEPT !.calls[k].pc = "awaitTransport",
                                  !.calls[k].config = r.created[1]]
     ELSE IF isPipelineManagerStage(requestEntity)
     THEN Suspend(beginExecute(Emit(w, k, "request.execute", i, "", Undefined),
                               ChildOf(k), requestEntity.request, "execute"),
                  k, "awaitNested", Undefined)
     ELSE DispatchFailed(w, k, i, UnknownTypeError)

executeSingle_DispatchFirst(w, k, i, previousResult) ==
  LET c == w.calls[k].chain
      requestEntity == w.chains[c].requestList[i]
      a == w.chains[c].adapter
  IN IF isPipelineRequestStage(requestEntity)
     THEN IF requestEntity.config = "throws"
          THEN LET r == Dispatch(ResolveConfig([requestEntity EXCEPT !.config = "literal"],
                                               previousResult), a)
                   w1 == Emit(w, k, "config", i, "", previousResult)
                   w2 == EmitAll(w1, k, "validateUrl", i, a, r.validated)
                   w3 == EmitAll(w2, k, "createRequest", i, a, r.created)
               IN StageFailed(w3, k, i, ConfigError)
          ELSE LET requestConfig == ResolveConfig(requestEntity, previousResult)
                   w1 == IF requestEntity.config = "factory"
                         THEN Emit(w, k, "config", i, "", previousResult)
                         ELSE w
                   r == Dispatch(requestConfig, a)
                   w2 == EmitAll(w1, k, "validateUrl", i, a, r.validated)
                   w3 == EmitAll(w2, k, "createRequest", i, a, r.created)
               IN IF r.threw
                  THEN StageFailed(w3, k, i, r.error)
                  ELSE [w3 EXCEPT !.calls[k].pc = "awaitTransport",
                                  !.calls[k].config = r.created[1]]
     ELSE IF isPipelineManagerStage(requestEntity)
     THEN Suspend(beginExecute(Emit(w, k, "request.execute", i, "", Undefined),
                               ChildOf(k), requestEntity.request, "execute"),
                  k, "awaitNested", Undefined)
     ELSE StageFailed(w, k, i, UnknownTypeError)

executeSingle_ManagerFirst(w, k, i, previousResult) ==
  LET c == w.calls[k].chain
      requestEntity == w.chains[c].requestList[i]
      a == w.chains[c].adapter
  IN IF isPipelineManagerStage(requestEntity)
     THEN Suspend(beginExecute(Emit(w, k, "request.execute", i, "", Undefined),
                               ChildOf(k), requestEntity.request, "execute"),
                  k, "awaitNested", Undefined)
     ELSE IF isPipelineRequestStage(requestEntity)
     THEN IF requestEntity.config = "throws"
          THEN StageFailed(Emit(w, k, "config", i, "", previousResult),
                           k, i, ConfigError)
          ELSE LET requestConfig == ResolveConfig(requestEntity, previousResult)
                   w1 == IF requestEntity.config = "factory"
                         THEN Emit(w, k, "config", i, "", previousResult)
                         ELSE w
                   r == Dispatch(requestConfig, a)
                   w2 == EmitAll(w1, k, "validateUrl", i, a, r.validated)
                   w3 == EmitAll(w2, k, "createRequest", i, a, r.created)
               IN IF r.threw
                  THEN StageFailed(w3, k, i, r.error)
                  ELSE [w3 EXCEPT !.calls[k].pc = "awaitTransport",
                                  !.calls[k].config = r.created[1]]
     ELSE StageFailed(w, k, i, UnknownTypeError)

executeSingle(w, k, i, previousResult) ==
  LET c == w.calls[k].chain
      requestEntity == w.chains[c].requestList[i]
      a == w.chains[c].adapter
  IN IF isPipelineRequestStage(requestEntity)
     THEN IF requestEntity.config = "throws"
          THEN StageFailed(Emit(w, k, "config", i, "", previousResult),
                           k, i, ConfigError)
          ELSE LET requestConfig == ResolveConfig(requestEntity, previousResult)
                   w1 == IF requestEntity.config = "factory"
                         THEN Emit(w, k, "config", i, "", previousResult)
                         ELSE w
                   r == Dispatch(requestConfig, a)
                   w2 == EmitAll(w1, k, "validateUrl", i, a, r.validated)
                   w3 == EmitAll(w2, k, "createRequest", i, a, r.created)
               IN IF r.threw
                  THEN StageFailed(w3, k, i, r.error)
                  ELSE [w3 EXCEPT !.calls[k].pc = "awaitTransport",
                                  !.calls[k].config = r.created[1]]
     ELSE IF isPipelineManagerStage(requestEntity)
     THEN Suspend(beginExecute(Emit(w, k, "request.execute", i, "", Undefined),
                               ChildOf(k), requestEntity.request, "execute"),
                  k, "awaitNested", Undefined)
     ELSE StageFailed(w, k, i, UnknownTypeError)

PreviousResult_Wrap(requestEntityList, i) ==
  IF i = 1 THEN requestEntityList[Len(requestEntityList)].result
  ELSE requestEntityList[i - 1].result

\* const previousResult = requestEntityList[i - 1]?.result
PreviousResult(requestEntityList, i) ==
  IF i = 1 THEN Undefined ELSE requestEntityList[i - 1].result

\* the loop of executeAllRequests from stage calls[k].i to its next await.
\* requestEntityList is the array the call was started with: the chain's own
\* array, whose length is read anew on every iteration, or its first
\* calls[k].detached entries once addAll has given the chain a new array
executeAllRequests(w, k) ==
  LET i == w.calls[k].i
      requestList == w.chains[w.calls[k].chain].requestList
      requestEntityList ==
        IF w.calls[k].detached = 0 THEN requestList
        ELSE SubSeq(requestList, 1, w.calls[k].detached)
  IN IF i > Len(requestEntityList)
     THEN Suspend(w, k, "allResolved", Undefined)
     ELSE executeSingle(w, k, i, PreviousResult(requestEntityList, i))

\* requestEntityList[i].result = result; results.push(result); i++
StoreResult_CacheRaw(w, k, result) ==
  LET c == w.calls[k].chain
      i == w.calls[k].i
  IN executeAllRequests(
       [Emit(w, k, "result", i, "", result)
          EXCEPT !.chains[c].requestList[i].result = w.calls[k].requestResult,
                 !.calls[k].results = Append(@, result),
                 !.calls[k].i = i + 1, !.calls[k].attempt = 0],
       k)

StoreResult_KeepFirst(w, k, result) ==
  LET c == w.calls[k].chain
      i == w.calls[k].i
      cached == w.chains[c].requestList[i].result
  IN executeAllRequests(
       [Emit(w, k, "result", i, "", result)
          EXCEPT !.chains[c].requestList[i].result =
                   IF Truthy(cached) THEN cached ELSE result,
                 !.calls[k].results = Append(@, result),
                 !.calls[k].i = i + 1, !.calls[k].attempt = 0],
       k)

StoreResult_NoCache(w, k, result) ==
  LET i == w.calls[k].i
  IN executeAllRequests(
       [Emit(w, k, "result", i, "", result)
          EXCEPT !.calls[k].results = Append(@, result),
                 !.calls[k].i = i + 1, !.calls[k].attempt = 0],
       k)

StoreResult(w, k, result) ==
  LET c == w.calls[k].chain
      i == w.calls[k].i
  IN executeAllRequests(
       [Emit(w, k, "result", i, "", result)
          EXCEPT !.chains[c].requestList[i].result = result,
                 !.calls[k].results = Append(@, result),
                 !.calls[k].i = i + 1, !.calls[k].attempt = 0],
       k)

\* executeSingle has resolved with requestResult: the mapper, if any
AfterSingle_NoAwait(w0, k) ==
  LET c == w0.calls[k].chain
      i == w0.calls[k].i
      requestEntity == w0.chains[c].requestList[i]
      requestResult == w0.calls[k].pending
      w == [w0 EXCEPT !.calls[k].requestResult = requestResult]
  IN IF requestEntity.mapper = "none" THEN StoreResult(w, k, requestResult)
     ELSE IF requestEntity.mapper = "throws"
     THEN StageFailed(Emit(w, k, "mapper", i, "", requestResult), k, i, MapperError)
     ELSE StoreResult(Emit(w, k, "mapper", i, "", requestResult), k,
                      MapperOut(requestResult))

\* executeSingle has resolved with requestResult: the mapper, if any
AfterSingle(w0, k) ==
  LET c == w0.calls[k].chain
      i == w0.calls[k].i
      requestEntity == w0.chains[c].requestList[i]
      requestResult == w0.calls[k].pending
      w == [w0 EXCEPT !.calls[k].requestResult = requestResult]
  IN IF requestEntity.mapper = "none" THEN StoreResult(w, k, requestResult)
     ELSE IF requestEntity.mapper = "throws"
     THEN StageFailed(Emit(w, k, "mapper", i, "", requestResult), k, i, MapperError)
     ELSE Suspend(Emit(w, k, "mapper", i, "", requestResult),
                  k, "awaitMapper", Mapper(requestEntity, requestResult))

\* finally { if (this.finishHandler) this.finishHandler(); }
Finally_SuccessOnly(w, k) ==
  LET w1 == IF w.chains[w.calls[k].chain].finishHandler
               /\ w.calls[k].pc = "allResolved"
            THEN Emit(w, k, "finishHandler", 0, "", Undefined)
            ELSE w
  IN [w1 EXCEPT !.calls[k].pc = "settling"]

Finally(w, k) ==
  LET w1 == IF w.chains[w.calls[k].chain].finishHandler
            THEN Emit(w, k, "finishHandler", 0, "", Undefined)
            ELSE w
  IN [w1 EXCEPT !.calls[k].pc = "settling"]

\* execute(): the try block after executeAllRequests has resolved
executeReturn_First(w, k) ==
  LET results == w.calls[k].results
      result == IF results = << >> THEN Undefined ELSE results[1]
      w1 == IF w.chains[w.calls[k].chain].resultHandler /\ Truthy(result)
            THEN Emit(w, k, "resultHandler", 0, "", result)
            ELSE w
  IN [w1 EXCEPT !.calls[k].status = "resolved", !.calls[k].value = result]

executeReturn_Raw(w, k) ==
  LET result == w.calls[k].requestResult
      w1 == IF w.chains[w.calls[k].chain].resultHandler /\ Truthy(result)
            THEN Emit(w, k, "resultHandler", 0, "", result)
            ELSE w
  IN [w1 EXCEPT !.calls[k].status = "resolved", !.calls[k].value = result]

executeReturn(w, k) ==
  LET results == w.calls[k].results
      result == IF results = << >> THEN Undefined ELSE results[Len(results)]
      w1 == IF w.chains[w.calls[k].chain].resultHandler /\ Truthy(result)
            THEN Emit(w, k, "resultHandler", 0, "", result)
            ELSE w
  IN [w1 EXCEPT !.calls[k].status = "resolved", !.calls[k].value = result]

\* executeAll(): the try block after executeAllRequests has resolved
executeAllReturn_LastOnly(w, k) ==
  LET resultList == w.calls[k].results
      w1 == IF w.chains[w.calls[k].chain].resultHandler
            THEN EmitList(w, k, "resultHandler", <<resultList[Len(resultList)]>>)
            ELSE w
  IN [w1 EXCEPT !.calls[k].status = "resolved", !.calls[k].values = resultList,
                !.calls[k].isList = TRUE]

executeAllReturn(w, k) ==
  LET resultList == w.calls[k].results
      w1 == IF w.chains[w.calls[k].chain].resultHandler
            THEN EmitList(w, k, "resultHandler", resultList)
            ELSE w
  IN [w1 EXCEPT !.calls[k].status = "resolved", !.calls[k].values = resultList,
                !.calls[k].isList = TRUE]

\* execute(): the catch block
executeCatch_Swallow(w, k) ==
  LET error == w.calls[k].pending
  IN IF w.chains[w.calls[k].chain].errorHandler
     THEN [Emit(w, k, "errorHandler", 0, "", error)
             EXCEPT !.calls[k].status = "resolved", !.calls[k].value = error]
     ELSE [w EXCEPT !.calls[k].status = "rejected", !.calls[k].value = error]

executeCatch(w, k) ==
  LET error == w.calls[k].pending
  IN IF w.chains[w.calls[k].chain].errorHandler
     THEN [Emit(w, k, "errorHandler", 0, "", error)
             EXCEPT !.calls[k].status = "rejected", !.calls[k].value = error]
     ELSE [w EXCEPT !.calls[k].status = "rejected", !.calls[k].value = error]

\* executeAll(): the catch block
executeAllCatch(w, k) ==
  LET error == w.calls[k].pending
  IN IF w.chains[w.calls[k].chain].errorHandler
     THEN [Emit(w, k, "errorHandler", 0, "", error)
             EXCEPT !.calls[k].status = "resolved", !.calls[k].value = error]
     ELSE [w EXCEPT !.calls[k].status = "rejected", !.calls[k].value = error]

\* the try block when the registered result handler throws: the handler has
\* been invoked, and its error is caught by the catch block of the same call
ResultHandlerError == <<"result handler error">>
ResultHandlerThrew(w, k) ==
  LET results == w.calls[k].results
      w1 == IF w.calls[k].mode = "execute"
            THEN Emit(w, k, "resultHandler", 0, "", results[Len(results)])
            ELSE EmitList(w, k, "resultHandler", results)
      w2 == [w1 EXCEPT !.calls[k].pending = ResultHandlerError]
  IN IF w.calls[k].mode = "execute" THEN executeCatch(w2, k)
     ELSE executeAllCatch(w2, k)

\* the catch block when the registered error handler throws: the handler has
\* been invoked, and its error leaves the call
ErrorHandlerError == <<"error handler error">>
ErrorHandlerThrew(w, k) ==
  [Emit(w, k, "errorHandler", 0, "", w.calls[k].pending)
     EXCEPT !.calls[k].status = "rejected", !.calls[k].value = ErrorHandlerError]

World == [chains |-> chains, calls |-> calls, log |-> log]
Commit(w) ==
  /\ chains' = w.chains
  /\ calls' = w.calls
  /\ log' = w.log

\* --------------------------------------------------------------- actions
InnerChain ==
  [requestList |-> <<RequestStage("literal", PublicUrl, "none"),
                     RequestStage("factory", PublicUrl, "plain")>>,
   adapter |-> "A2", errorHandler |-> TRUE, resultHandler |-> TRUE,
   finishHandler |-> TRUE]

\* RequestChain.begin(stage, adapter): a new chain, its adapter, its first stage
begin(stage, adapter) ==
  [requestList |-> <<stage>>, adapter |-> adapter, errorHandler |-> FALSE,
   resultHandler |-> FALSE, finishHandler |-> FALSE]

Init ==
  /\ \E stage \in StageMenu :
       chains = [c \in ChainIds |->
                   IF c = "outer" THEN begin(stage, "A1") ELSE InnerChain]
  /\ \E allowLocalhost \in BOOLEAN :
       adapters = [a \in AdapterIds |->
                     IF a = "A1"
                     THEN [kind |-> "base",
                           options |-> [DefaultOptions EXCEPT
                                          !.allowLocalhost = allowLocalhost]]
                     ELSE [kind |-> "test", options |-> DefaultOptions]]
  /\ calls = [k \in CallIds |-> FreeCall]
  /\ log = << >>
  /\ started = 0

\* next(stage) -> addRequestEntity: this.requestList.push(stage)
next(c, stage) ==
  /\ Len(chains[c].requestList) < MaxStages
  /\ chains' = [chains EXCEPT ![c].requestList = Append(@, stage)]
  /\ UNCHANGED <<calls, log, adapters, started>>

\* next(stage) -> addRequestEntity(stage): this.requestList.push(stage), in
\* place; the log records the call
addRequestEntity(c, stage) ==
  /\ Len(chains[c].requestList) < MaxStages
  /\ chains' = [chains EXCEPT ![c].requestList = Append(@, stage)]
  /\ log' = Append(log, Event(c, "addRequestEntity", Len(chains[c].requestList) + 1,
                              "", Undefined, << >>))
  /\ UNCHANGED <<calls, adapters, started>>

\* addAll(requestList): this.requestList = this.requestList.concat(requestList),
\* a new array; a call in flight keeps iterating the array it was started with
addAll(c, requestList) ==
  LET old == Len(chains[c].requestList)
  IN /\ old + Len(requestList) <= MaxStages
     /\ chains' = [chains EXCEPT ![c].requestList = @ \o requestList]
     /\ calls' = [k \in CallIds |->
                    IF InFlight(k) /\ calls[k].chain = c /\ calls[k].detached = 0
                    THEN [calls[k] EXCEPT !.detached = old]
                    ELSE calls[k]]
     /\ log' = log \o [n \in 1..Len(requestList) |->
                         Event(c, "addAll", old + n, "", Undefined, << >>)]
     /\ UNCHANGED <<adapters, started>>

withErrorHandler(c) ==
  /\ ~chains[c].errorHandler
  /\ chains' = [chains EXCEPT ![c].errorHandler = TRUE]
  /\ UNCHANGED <<calls, log, adapters, started>>

withResultHandler(c) ==
  /\ ~chains[c].resultHandler
  /\ chains' = [chains EXCEPT ![c].resultHandler = TRUE]
  /\ UNCHANGED <<calls, log, adapters, started>>

withFinishHandler(c) ==
  /\ ~chains[c].finishHandler
  /\ chains' = [chains EXCEPT ![c].finishHandler = TRUE]
  /\ UNCHANGED <<calls, log, adapters, started>>

\* the log keeps the events of the latest call of each slot, and of its
\* nested calls
\* chain.setRequestAdapter(adapter): this.adapter = adapter; return this
\* (the log keeps the latest call of setRequestAdapter only)
setRequestAdapter_Ignored(c, a) ==
  /\ log' = Append(SelectSeq(log, LAMBDA e : e.ev # "setRequestAdapter"),
                   Event(c, "setRequestAdapter", 0, a, Undefined, << >>))
  /\ UNCHANGED <<chains, calls, adapters, started>>

setRequestAdapter(c, a) ==
  /\ chains' = [chains EXCEPT ![c].adapter = a]
  /\ log' = Append(SelectSeq(log, LAMBDA e : e.ev # "setRequestAdapter"),
                   Event(c, "setRequestAdapter", 0, a, Undefined, << >>))
  /\ UNCHANGED <<calls, adapters, started>>

StartLog(k) == SelectSeq(log, LAMBDA e : e.call \notin {k, ChildOf(k)})

\* a caller invokes chain.execute(): the run up to the first await
execute(k, c) ==
  /\ started < MaxCalls
  /\ ~InFlight(k)
  /\ started' = started + 1
  /\ Commit(beginExecute([World EXCEPT !.log = StartLog(k)], k, c, "execute"))
  /\ UNCHANGED adapters

\* a caller invokes chain.executeAll(): the run up to the first await
executeAll(k, c) ==
  /\ started < MaxCalls
  /\ ~InFlight(k)
  /\ started' = started + 1
  /\ Commit(beginExecute([World EXCEPT !.log = StartLog(k)], k, c, "executeAll"))
  /\ UNCHANGED adapters

\* createRequest's promise resolves with one of the bodies
TransportAnswer(k, body) ==
  /\ calls[k].pc = "awaitTransport"
  /\ LET a == chains[calls[k].chain].adapter
         requestResult ==
           getResult(adapters[a].kind, ResponseOf(calls[k].config, body))
     IN Commit(Suspend(Emit(World, k, "raw", calls[k].i, a, requestResult),
                       k, "singleResolved", requestResult))
  /\ UNCHANGED <<adapters, started>>

\* createRequest's promise resolves (an adapter whose createRequest keeps the
\* request of its latest call in a field and answers that one)
TransportResolve_SharedState(k) ==
  /\ calls[k].pc = "awaitTransport"
  /\ LET a == chains[calls[k].chain].adapter
         ps == {p \in 1..Len(log) : log[p].ev = "createRequest"}
         last == CHOOSE p \in ps : \A q \in ps : q <= p
         requestResult ==
           getResult(adapters[a].kind, log[last].v \o <<"response">>)
     IN Commit(Suspend(Emit(World, k, "raw", calls[k].i, a, requestResult),
                       k, "singleResolved", requestResult))
  /\ UNCHANGED <<adapters, started>>

\* createRequest's promise resolves: return this.adapter.getResult(rawResult)
TransportResolve(k) ==
  /\ calls[k].pc = "awaitTransport"
  /\ LET a == chains[calls[k].chain].adapter
         requestResult == getResult(adapters[a].kind, Response(calls[k].config))
     IN Commit(Suspend(Emit(World, k, "raw", calls[k].i, a, requestResult),
                       k, "singleResolved", requestResult))
  /\ UNCHANGED <<adapters, started>>

\* createRequest's promise rejects with one of the transport failures
TransportFail(k, error) ==
  /\ calls[k].pc = "awaitTransport"
  /\ Commit(DispatchFailed(World, k, calls[k].i, error))
  /\ UNCHANGED <<adapters, started>>

\* createRequest's promise rejects
TransportReject(k) ==
  /\ calls[k].pc = "awaitTransport"
  /\ Commit(DispatchFailed(World, k, calls[k].i, TransportError))
  /\ UNCHANGED <<adapters, started>>

\* the backoff delay has elapsed: attempt n + 1 re-resolves the config with the
\* same previous result and dispatches again
RetryWake(k) ==
  /\ calls[k].pc = "awaitRetryDelay"
  /\ LET i == calls[k].i
         requestEntityList == chains[calls[k].chain].requestList
         w == [World EXCEPT !.calls[k].attempt = @ + 1,
                            !.calls[k].pc = "running",
                            !.calls[k].pending = Undefined]
     IN Commit(executeSingle(w, k, i, PreviousResult(requestEntityList, i)))
  /\ UNCHANGED <<adapters, started>>

\* the nested chain's execute() has settled: the manager branch resumes
NestedSettled_Early(k) ==
  /\ calls[k].pc = "awaitNested"
  /\ calls[ChildOf(k)].pc \in {"allResolved", "rejected"}
  /\ LET a == chains[calls[k].chain].adapter
         child == calls[ChildOf(k)]
         requestResult ==
           getResult(adapters[a].kind, child.results[Len(child.results)])
     IN IF child.pc = "allResolved"
        THEN Commit(Suspend(Emit(World, k, "raw", calls[k].i, a, requestResult),
                            k, "singleResolved", requestResult))
        ELSE Commit(StageFailed(World, k, calls[k].i, child.pending))
  /\ UNCHANGED <<adapters, started>>

NestedSettled_Resolved(k) ==
  /\ calls[k].pc = "awaitNested"
  /\ calls[ChildOf(k)].pc = "settled"
  /\ LET a == chains[calls[k].chain].adapter
         child == calls[ChildOf(k)]
         requestResult == getResult(adapters[a].kind, child.value)
     IN Commit(Suspend(Emit(World, k, "raw", calls[k].i, a, requestResult),
                       k, "singleResolved", requestResult))
  /\ UNCHANGED <<adapters, started>>

\* the manager branch resumes when the nested chain's execute() has resolved
\* only (new Promise(resolve => request.execute().then(resolve)))
NestedSettled_ResolveOnly(k) ==
  /\ calls[k].pc = "awaitNested"
  /\ calls[ChildOf(k)].pc = "settled"
  /\ calls[ChildOf(k)].status = "resolved"
  /\ LET a == chains[calls[k].chain].adapter
         child == calls[ChildOf(k)]
         requestResult == getResult(adapters[a].kind, child.value)
     IN Commit(Suspend(Emit(World, k, "raw", calls[k].i, a, requestResult),
                       k, "singleResolved", requestResult))
  /\ UNCHANGED <<adapters, started>>

\* the nested chain's execute() has settled: the manager branch resumes
NestedSettled(k) ==
  /\ calls[k].pc = "awaitNested"
  /\ calls[ChildOf(k)].pc = "settled"
  /\ LET a == chains[calls[k].chain].adapter
         child == calls[ChildOf(k)]
         requestResult == getResult(adapters[a].kind, child.value)
     IN IF child.status = "resolved"
        THEN Commit(Suspend(Emit(World, k, "raw", calls[k].i, a, requestResult),
                            k, "singleResolved", requestResult))
        ELSE Commit(StageFailed(World, k, calls[k].i, child.value))
  /\ UNCHANGED <<adapters, started>>

\* executeAllRequests resumes after `await this.executeSingle(...)`
ResumeAfterSingle(k) ==
  /\ calls[k].pc = "singleResolved"
  /\ Commit(AfterSingle(World, k))
  /\ UNCHANGED <<adapters, started>>

\* executeAllRequests resumes after `await requestEntity.mapper(...)`
ResumeAfterMapper_LocalOnly(k) ==
  /\ calls[k].pc = "awaitMapper"
  /\ LET result == Await(calls[k].pending)
         w == StoreResult(Emit(World, k, "mapped", calls[k].i, "", result),
                          k, result)
     IN Commit([w EXCEPT !.chains = chains])
  /\ UNCHANGED <<adapters, started>>

\* executeAllRequests resumes after `await requestEntity.mapper(...)`
ResumeAfterMapper(k) ==
  /\ calls[k].pc = "awaitMapper"
  /\ LET result == Await(calls[k].pending)
     IN Commit(StoreResult(Emit(World, k, "mapped", calls[k].i, "", result),
                           k, result))
  /\ UNCHANGED <<adapters, started>>

\* execute / executeAll resume after `await this.executeAllRequests(...)`
Return(k) ==
  /\ calls[k].pc = "allResolved"
  /\ Commit(Finally(IF calls[k].mode = "execute"
                    THEN executeReturn(World, k)
                    ELSE executeAllReturn(World, k), k))
  /\ UNCHANGED <<adapters, started>>

\* execute / executeAll resume after `await this.executeAllRequests(...)` and
\* the result handler, invoked in the try block, throws: catch, then finally
ResultHandlerThrows(k) ==
  /\ calls[k].pc = "allResolved"
  /\ chains[calls[k].chain].resultHandler
  /\ calls[k].mode = "execute" =>
       Truthy(calls[k].results[Len(calls[k].results)])
  /\ Commit(Finally(ResultHandlerThrew(World, k), k))
  /\ UNCHANGED <<adapters, started>>

\* the await in execute / executeAll throws: catch, then finally
Catch(k) ==
  /\ calls[k].pc = "rejected"
  /\ Commit(Finally(IF calls[k].mode = "execute"
                    THEN executeCatch(World, k)
                    ELSE executeAllCatch(World, k), k))
  /\ UNCHANGED <<adapters, started>>

\* the await in execute / executeAll throws and the error handler, invoked in
\* the catch block, throws: finally, and the call rejects with its error
ErrorHandlerThrows(k) ==
  /\ calls[k].pc = "rejected"
  /\ chains[calls[k].chain].errorHandler
  /\ Commit(Finally(ErrorHandlerThrew(World, k), k))
  /\ UNCHANGED <<adapters, started>>

\* the promise returned by execute / executeAll settles
Settle(k) ==
  /\ calls[k].pc = "settling"
  /\ calls' = [calls EXCEPT ![k].pc = "settled"]
  /\ UNCHANGED <<chains, log, adapters, started>>

\* The caller builds the outer chain (stages, handlers) while no call of it is
\* in flight, and runs it up to MaxCalls times, one call after the other.
\* Handlers return normally.  The nested chain is built before the outer one.
Next ==
  \/ \E stage \in StageMenu : Quiescent("outer") /\ next("outer", stage)
  \/ Quiescent("outer") /\ withErrorHandler("outer")
  \/ Quiescent("outer") /\ withResultHandler("outer")
  \/ Quiescent("outer") /\ withFinishHandler("outer")
  \/ execute("top", "outer")
  \/ executeAll("top", "outer")
  \/ \E k \in CallIds : TransportResolve(k)
  \/ \E k \in CallIds : TransportReject(k)
  \/ \E k \in CallIds : NestedSettled(k)
  \/ \E k \in CallIds : ResumeAfterSingle(k)
  \/ \E k \in CallIds : ResumeAfterMapper(k)
  \/ \E k \in CallIds : Return(k)
  \/ \E k \in CallIds : Catch(k)
  \/ \E k \in CallIds : Settle(k)

Spec == Init /\ [][Next]_vars

\* ------------------------------------- the adapter called on its own
\* the urlValidationOptions an adapter is constructed with
AllowedHostSets == { {}, {"127.0.0.1"}, {"10.1.2.3", "::1"}, {"example.com"} }

AllOptions ==
  [allowLocalhost : BOOLEAN, allowPrivateNetworks : BOOLEAN,
   allowedHosts : AllowedHostSets]

InitGuard ==
  /\ chains = [c \in ChainIds |-> InnerChain]
  /\ \E options \in AllOptions :
       adapters = [a \in AdapterIds |-> [kind |-> "base", options |-> options]]
  /\ calls = [k \in CallIds |-> FreeCall]
  /\ log = << >>
  /\ started = 0

\* a caller invokes adapter.executeRequest(config) on adapter a
DirectExecuteRequest(k, a, url) ==
  /\ started < MaxCalls
  /\ ~InFlight(k)
  /\ started' = started + 1
  /\ LET requestConfig == Config(url, Undefined)
         r == executeRequest(requestConfig, adapters[a].options)
         w0 == [World EXCEPT !.log = << >>,
                  !.calls[k] = [FreeCall EXCEPT !.mode = "direct",
                                                !.config = requestConfig]]
         w1 == EmitAll(w0, k, "validateUrl", 0, a, r.validated)
         w2 == EmitAll(w1, k, "createRequest", 0, a, r.created)
     IN IF r.threw
        THEN Commit([w2 EXCEPT !.calls[k].pc = "settled",
                               !.calls[k].status = "rejected",
                               !.calls[k].value = r.error])
        ELSE Commit([w2 EXCEPT !.calls[k].pc = "awaitDirect"])
  /\ UNCHANGED adapters

\* the promise createRequest returned resolves
DirectResolve(k) ==
  /\ calls[k].pc = "awaitDirect"
  /\ calls' = [calls EXCEPT ![k].pc = "settled", ![k].status = "resolved",
                            ![k].value = Response(calls[k].config)]
  /\ UNCHANGED <<chains, log, adapters, started>>

\* the promise createRequest returned rejects
DirectReject(k) ==
  /\ calls[k].pc = "awaitDirect"
  /\ calls' = [calls EXCEPT ![k].pc = "settled", ![k].status = "rejected",
                            ![k].value = TransportError]
  /\ UNCHANGED <<chains, log, adapters, started>>

NextGuard ==
  \/ \E s \in Schemes, h \in Hosts : DirectExecuteRequest("top", "A1", Url(s, h))
  \/ DirectResolve("top")
  \/ DirectReject("top")

GuardSpec == InitGuard /\ [][NextGuard]_vars

\* ------------------------- chains with preconditions, async mappers, nesting
\* the stage literals of a caller who uses preconditions, async mappers and
\* nested chains
StageSpecMenu ==
  { RequestStage("literal", PublicUrl, "none"),
    RequestStage("factory", PublicUrl, "plain"),
    RequestStage("factory", PublicUrl, "promise"),
    WithPrecondition(RequestStage("factory", PublicUrl, "plain"), "false"),
    WithPrecondition(RequestStage("literal", PublicUrl, "none"), "true"),
    ManagerStage("inner", "none"),
    ManagerStage("inner", "plain") }

\* the stage lists of the nested chain: one to three stages, the first one a
\* literal or a factory
InnerLists ==
  { <<RequestStage("factory", PublicUrl, "none")>>,
    <<RequestStage("literal", PublicUrl, "none"),
      RequestStage("factory", PublicUrl, "plain")>>,
    <<RequestStage("factory", PublicUrl, "promise"),
      RequestStage("literal", PublicUrl, "none"),
      RequestStage("factory", PublicUrl, "none")>> }

\* the parent's adapter keeps the default getResult or overrides it
InitStage ==
  /\ \E stage \in StageSpecMenu, requestList \in InnerLists :
       chains = [c \in ChainIds |->
                   IF c = "outer" THEN begin(stage, "A1")
                   ELSE [InnerChain EXCEPT !.requestList = requestList]]
  /\ \E kind \in {"base", "test"} :
       adapters = [a \in AdapterIds |->
                     IF a = "A1"
                     THEN [kind |-> kind, options |-> DefaultOptions]
                     ELSE [kind |-> "test", options |-> DefaultOptions]]
  /\ calls = [k \in CallIds |-> FreeCall]
  /\ log = << >>
  /\ started = 0

NextStage ==
  \/ \E stage \in StageSpecMenu : Quiescent("outer") /\ next("outer", stage)
  \/ execute("top", "outer")
  \/ executeAll("top", "outer")
  \/ \E k \in CallIds : TransportResolve(k)
  \/ \E k \in CallIds : TransportReject(k)
  \/ \E k \in CallIds : NestedSettled(k)
  \/ \E k \in CallIds : ResumeAfterSingle(k)
  \/ \E k \in CallIds : ResumeAfterMapper(k)
  \/ \E k \in CallIds : Return(k)
  \/ \E k \in CallIds : Catch(k)
  \/ \E k \in CallIds : Settle(k)

StageSpec == InitStage /\ [][NextStage]_vars

\* ------------------------------------------------- chains with retry policies
\* { maxRetries: 3, retryDelay: 100, exponentialBackoff: true }
BackoffPolicy == RetryConfig(3, 100, TRUE, "default")
\* { maxRetries: 1, retryDelay: 100, retryCondition: () => true }
AlwaysPolicy == RetryConfig(1, 100, FALSE, "always")

\* the stage literals of a caller who attaches retry policies: stages that can
\* fail in the transport, in the config factory, in the URL validation, in
\* the mapper, and a stage of unknown type
RetryMenu ==
  { WithRetryPolicy(RequestStage("factory", PublicUrl, "none"), BackoffPolicy),
    WithRetryPolicy(RequestStage("literal", PublicUrl, "plain"), AlwaysPolicy),
    RequestStage("literal", PublicUrl, "none"),
    WithRetryPolicy(RequestStage("throws", PublicUrl, "none"), AlwaysPolicy),
    WithRetryPolicy(RequestStage("literal", LoopbackUrl, "none"), AlwaysPolicy),
    WithRetryPolicy(RequestStage("literal", PublicUrl, "throws"), AlwaysPolicy),
    WithRetryPolicy(UnknownStage, AlwaysPolicy) }

InitRetry ==
  /\ \E stage \in RetryMenu :
       chains = [c \in ChainIds |->
                   IF c = "outer" THEN begin(stage, "A1") ELSE InnerChain]
  /\ adapters = [a \in AdapterIds |->
                   IF a = "A1" THEN [kind |-> "base", options |-> DefaultOptions]
                   ELSE [kind |-> "test", options |-> DefaultOptions]]
  /\ calls = [k \in CallIds |-> FreeCall]
  /\ log = << >>
  /\ started = 0

NextRetry ==
  \/ \E stage \in RetryMenu : Quiescent("outer") /\ next("outer", stage)
  \/ execute("top", "outer")
  \/ \E k \in CallIds : TransportResolve(k)
  \/ \E k \in CallIds, error \in TransportErrors : TransportFail(k, error)
  \/ \E k \in CallIds : RetryWake(k)
  \/ \E k \in CallIds : ResumeAfterSingle(k)
  \/ \E k \in CallIds : ResumeAfterMapper(k)
  \/ \E k \in CallIds : Return(k)
  \/ \E k \in CallIds : Catch(k)
  \/ \E k \in CallIds : Settle(k)

RetrySpec == InitRetry /\ [][NextRetry]_vars

\* ------------------------------------------- overlapping calls of one chain
\* the chain the caller has built before it starts the calls
ConcLists ==
  { <<RequestStage("factory", PublicUrl, "plain")>>,
    <<RequestStage("literal", PublicUrl, "none"),
      RequestStage("factory", PublicUrl, "plain")>> }

InitConc ==
  /\ \E requestList \in ConcLists :
       chains = [c \in ChainIds |->
                   IF c = "outer"
                   THEN [begin(requestList[1], "A1")
                           EXCEPT !.requestList = requestList]
                   ELSE InnerChain]
  /\ adapters = [a \in AdapterIds |->
                   IF a = "A1" THEN [kind |-> "base", options |-> DefaultOptions]
                   ELSE [kind |-> "test", options |-> DefaultOptions]]
  /\ calls = [k \in CallIds |-> FreeCall]
  /\ log = << >>
  /\ started = 0

\* The caller starts a second execute() / executeAll() of the same chain
\* before the first one has settled; the server answers each request with
\* one of the bodies.
NextConc ==
  \/ execute("top", "outer")
  \/ executeAll("top2", "outer")
  \/ \E k \in CallIds, body \in Bodies : TransportAnswer(k, body)
  \/ \E k \in CallIds : ResumeAfterSingle(k)
  \/ \E k \in CallIds : ResumeAfterMapper(k)
  \/ \E k \in CallIds : Return(k)
  \/ \E k \in CallIds : Settle(k)

ConcSpec == InitConc /\ [][NextConc]_vars

\* The caller invokes execute() twice on the same chain, the second time
\* before the first call has settled.
NextOverlap ==
  \/ execute("top", "outer")
  \/ execute("top2", "outer")
  \/ \E k \in CallIds, body \in Bodies : TransportAnswer(k, body)
  \/ \E k \in CallIds : ResumeAfterSingle(k)
  \/ \E k \in CallIds : ResumeAfterMapper(k)
  \/ \E k \in CallIds : Return(k)
  \/ \E k \in CallIds : Settle(k)

OverlapSpec == InitConc /\ [][NextOverlap]_vars

\* ------------------------------- two chains that share one adapter instance
\* both chains are built on adapter A1 and carry all three handlers
InitIndep ==
  /\ \E requestList \in ConcLists :
       chains = [c \in ChainIds |->
                   IF c = "outer"
                   THEN [InnerChain EXCEPT !.requestList = requestList,
                                           !.adapter = "A1"]
                   ELSE [InnerChain EXCEPT !.adapter = "A1"]]
  /\ adapters = [a \in AdapterIds |->
                   IF a = "A1" THEN [kind |-> "test", options |-> DefaultOptions]
                   ELSE [kind |-> "base", options |-> DefaultOptions]]
  /\ calls = [k \in CallIds |-> FreeCall]
  /\ log = << >>
  /\ started = 0

\* one caller runs the first chain, another one the second, at any time
NextIndep ==
  \/ execute("top", "outer")
  \/ executeAll("top2", "inner")
  \/ \E k \in CallIds : TransportResolve(k)
  \/ \E k \in CallIds : TransportReject(k)
  \/ \E k \in CallIds : ResumeAfterSingle(k)
  \/ \E k \in CallIds : ResumeAfterMapper(k)
  \/ \E k \in CallIds : Return(k)
  \/ \E k \in CallIds : Catch(k)
  \/ \E k \in CallIds : Settle(k)

IndepSpec == InitIndep /\ [][NextIndep]_vars

\* ------------------------- one chain run again and again, adapter replaced
\* A chain with its handlers registered is executed several times, one call
\* after the other; between two calls the caller may replace its adapter; the
\* server may answer the same request with a different body each time.
InitRerun ==
  /\ \E requestList \in ConcLists :
       chains = [c \in ChainIds |->
                   IF c = "outer"
                   THEN [begin(requestList[1], "A1")
                           EXCEPT !.requestList = requestList,
                                  !.errorHandler = TRUE,
                                  !.resultHandler = TRUE,
                                  !.finishHandler = TRUE]
                   ELSE InnerChain]
  /\ adapters = [a \in AdapterIds |->
                   IF a = "A1" THEN [kind |-> "base", options |-> DefaultOptions]
                   ELSE [kind |-> "test", options |-> DefaultOptions]]
  /\ calls = [k \in CallIds |-> FreeCall]
  /\ log = << >>
  /\ started = 0

NextRerun ==
  \/ \E a \in AdapterIds : Quiescent("outer") /\ setRequestAdapter("outer", a)
  \/ Quiescent("outer") /\ execute("top", "outer")
  \/ Quiescent("outer") /\ executeAll("top2", "outer")
  \/ \E k \in CallIds, body \in Bodies : TransportAnswer(k, body)
  \/ \E k \in CallIds : TransportReject(k)
  \/ \E k \in CallIds : ResumeAfterSingle(k)
  \/ \E k \in CallIds : ResumeAfterMapper(k)
  \/ \E k \in CallIds : Return(k)
  \/ \E k \in CallIds : Catch(k)
  \/ \E k \in CallIds : Settle(k)

RerunSpec == InitRerun /\ [][NextRerun]_vars

\* --------------------------------- handlers: falsy results, throwing handlers
\* The chain carries a result handler and a finish handler, and an error
\* handler or none; the mapper of the last stage may return undefined; the
\* result handler and the error handler may throw.
HandlerLists ==
  { <<RequestStage("literal", PublicUrl, "none")>>,
    <<RequestStage("literal", PublicUrl, "undefined")>>,
    <<RequestStage("literal", PublicUrl, "none"),
      RequestStage("factory", PublicUrl, "plain")>>,
    <<RequestStage("literal", PublicUrl, "plain"),
      RequestStage("factory", PublicUrl, "undefined")>> }

InitHandler ==
  /\ \E requestList \in HandlerLists, errorHandler \in BOOLEAN :
       chains = [c \in ChainIds |->
                   IF c = "outer"
                   THEN [begin(requestList[1], "A1")
                           EXCEPT !.requestList = requestList,
                                  !.errorHandler = errorHandler,
                                  !.resultHandler = TRUE,
                                  !.finishHandler = TRUE]
                   ELSE InnerChain]
  /\ adapters = [a \in AdapterIds |->
                   IF a = "A1" THEN [kind |-> "base", options |-> DefaultOptions]
                   ELSE [kind |-> "test", options |-> DefaultOptions]]
  /\ calls = [k \in CallIds |-> FreeCall]
  /\ log = << >>
  /\ started = 0

NextHandler ==
  \/ execute("top", "outer")
  \/ executeAll("top", "outer")
  \/ \E k \in CallIds : TransportResolve(k)
  \/ \E k \in CallIds : TransportReject(k)
  \/ \E k \in CallIds : ResumeAfterSingle(k)
  \/ \E k \in CallIds : ResumeAfterMapper(k)
  \/ \E k \in CallIds : Return(k)
  \/ \E k \in CallIds : ResultHandlerThrows(k)
  \/ \E k \in CallIds : Catch(k)
  \/ \E k \in CallIds : ErrorHandlerThrows(k)
  \/ \E k \in CallIds : Settle(k)

HandlerSpec == InitHandler /\ [][NextHandler]_vars

\* Two overlapping execute() calls of one chain whose dispatches may fail.
NextOverlapFail ==
  \/ execute("top", "outer")
  \/ execute("top2", "outer")
  \/ \E k \in CallIds, body \in Bodies : TransportAnswer(k, body)
  \/ \E k \in CallIds : TransportReject(k)
  \/ \E k \in CallIds : ResumeAfterSingle(k)
  \/ \E k \in CallIds : ResumeAfterMapper(k)
  \/ \E k \in CallIds : Return(k)
  \/ \E k \in CallIds : Catch(k)
  \/ \E k \in CallIds : Settle(k)

OverlapFailSpec == InitConc /\ [][NextOverlapFail]_vars

\* ------------------------------------ stages appended while a call is in flight
\* The caller appends stages with next() or addAll() at any time, also while an
\* execute() / executeAll() of the chain is suspended.
AppendMenu ==
  { RequestStage("literal", PublicUrl, "none"),
    RequestStage("factory", PublicUrl, "plain") }

AddLists ==
  { << >> } \cup { <<stage>> : stage \in AppendMenu }
    \cup { <<RequestStage("literal", PublicUrl, "none"), stage>> : stage \in AppendMenu }

InitAppend ==
  /\ \E stage \in AppendMenu :
       chains = [c \in ChainIds |->
                   IF c = "outer" THEN begin(stage, "A1") ELSE InnerChain]
  /\ adapters = [a \in AdapterIds |->
                   IF a = "A1" THEN [kind |-> "base", options |-> DefaultOptions]
                   ELSE [kind |-> "test", options |-> DefaultOptions]]
  /\ calls = [k \in CallIds |-> FreeCall]
  /\ log = << >>
  /\ started = 0

NextAppend ==
  \/ \E stage \in AppendMenu : addRequestEntity("outer", stage)
  \/ \E requestList \in AddLists : addAll("outer", requestList)
  \/ execute("top", "outer")
  \/ executeAll("top", "outer")
  \/ \E k \in CallIds : TransportResolve(k)
  \/ \E k \in CallIds : ResumeAfterSingle(k)
  \/ \E k \in CallIds : ResumeAfterMapper(k)
  \/ \E k \in CallIds : Return(k)
  \/ \E k \in CallIds : Settle(k)

AppendSpec == InitAppend /\ [][NextAppend]_vars

\* --------------------------------------- stage literals of every key shape
\* a stage literal that carries both a config key and a request key
BothStage(config, mapper) == Stage(TRUE, TRUE, config, PublicUrl, mapper, "inner")

ShapeMenu ==
  { BothStage("literal", "none"),
    BothStage("factory", "plain"),
    RequestStage("factory", PublicUrl, "none"),
    ManagerStage("inner", "none"),
    UnknownStage }

InitShape ==
  /\ \E stage \in ShapeMenu :
       chains = [c \in ChainIds |->
                   IF c = "outer" THEN begin(stage, "A1") ELSE InnerChain]
  /\ adapters = [a \in AdapterIds |->
                   IF a = "A1" THEN [kind |-> "base", options |-> DefaultOptions]
                   ELSE [kind |-> "test", options |-> DefaultOptions]]
  /\ calls = [k \in CallIds |-> FreeCall]
  /\ log = << >>
  /\ started = 0

NextShape ==
  \/ \E stage \in ShapeMenu : Quiescent("outer") /\ next("outer", stage)
  \/ execute("top", "outer")
  \/ executeAll("top", "outer")
  \/ \E k \in CallIds : TransportResolve(k)
  \/ \E k \in CallIds : TransportReject(k)
  \/ \E k \in CallIds : NestedSettled(k)
  \/ \E k \in CallIds : ResumeAfterSingle(k)
  \/ \E k \in CallIds : ResumeAfterMapper(k)
  \/ \E k \in CallIds : Return(k)
  \/ \E k \in CallIds : Catch(k)
  \/ \E k \in CallIds : Settle(k)

ShapeSpec == InitShape /\ [][NextShape]_vars


\* ------------------------------------------- every awaited promise settles
\* The chain carries all three handlers or no error handler; its stages
\* dispatch through the adapter (the dispatch may fail and be retried up to
\* maxRetries times), await a mapper, and run a nested chain.
LiveLists ==
  { <<WithRetryPolicy(RequestStage("factory", PublicUrl, "plain"), AlwaysPolicy)>>,
    <<ManagerStage("inner", "none"),
      WithRetryPolicy(RequestStage("literal", PublicUrl, "none"), AlwaysPolicy)>>,
    <<RequestStage("throws", PublicUrl, "none")>> }

InitLive ==
  /\ \E requestList \in LiveLists, errorHandler \in BOOLEAN :
       chains = [c \in ChainIds |->
                   IF c = "outer"
                   THEN [begin(requestList[1], "A1")
                           EXCEPT !.requestList = requestList,
                                  !.errorHandler = errorHandler,
                                  !.resultHandler = TRUE,
                                  !.finishHandler = TRUE]
                   ELSE InnerChain]
  /\ adapters = [a \in AdapterIds |->
                   IF a = "A1" THEN [kind |-> "base", options |-> DefaultOptions]
                   ELSE [kind |-> "test", options |-> DefaultOptions]]
  /\ calls = [k \in CallIds |-> FreeCall]
  /\ log = << >>
  /\ started = 0

NextLive ==
  \/ execute("top", "outer")
  \/ executeAll("top", "outer")
  \/ \E k \in CallIds : TransportResolve(k)
  \/ \E k \in CallIds : TransportReject(k)
  \/ \E k \in CallIds : RetryWake(k)
  \/ \E k \in CallIds : NestedSettled(k)
  \/ \E k \in CallIds : ResumeAfterSingle(k)
  \/ \E k \in CallIds : ResumeAfterMapper(k)
  \/ \E k \in CallIds : Return(k)
  \/ \E k \in CallIds : ResultHandlerThrows(k)
  \/ \E k \in CallIds : Catch(k)
  \/ \E k \in CallIds : ErrorHandlerThrows(k)
  \/ \E k \in CallIds : Settle(k)

\* the caller's call and the nested chain's call it makes
LiveCalls == {"top", ChildOf("top")}

\* Every promise a call awaits settles: the adapter's dispatch resolves or
\* rejects, the backoff delay elapses, the nested chain's settlement and the
\* mapper's result are delivered, and the continuation of each await (the
\* loop, the try / catch / finally blocks, the settlement of the returned
\* promise) is run by the event loop.
LiveFairness ==
  \A k \in LiveCalls :
    /\ WF_vars(TransportResolve(k) \/ TransportReject(k))
    /\ WF_vars(RetryWake(k))
    /\ WF_vars(NestedSettled(k))
    /\ WF_vars(ResumeAfterSingle(k))
    /\ WF_vars(ResumeAfterMapper(k))
    /\ WF_vars(Return(k) \/ ResultHandlerThrows(k))
    /\ WF_vars(Catch(k) \/ ErrorHandlerThrows(k))
    /\ WF_vars(Settle(k))

LiveSpec == InitLive /\ [][NextLive]_vars /\ LiveFairness

\* ------------------------------------------------------------ properties
EventsOf(k, ev) == SelectSeq(log, LAMBDA e : e.call = k /\ e.ev = ev)
Positions(k, ev) == {p \in 1..Len(log) : log[p].call = k /\ log[p].ev = ev}
Fails(k) == EventsOf(k, "fail")
StagesOf(k) == chains[calls[k].chain].requestList
IsChainCall(k) == calls[k].mode \in {"execute", "executeAll"}
HostByName(n) == CHOOSE h \in Hosts : h.name = n

\* what executeSingle resolved with for stage j of call k
RawOf(k, j) ==
  log[CHOOSE p \in 1..Len(log) :
        log[p].call = k /\ log[p].ev = "raw" /\ log[p].i = j].v

\* the mapped output of stage j of call k
ExpectedOutput(k, j) ==
  IF StagesOf(k)[j].mapper = "none" THEN RawOf(k, j) ELSE MapperOut(RawOf(k, j))

\* C1: in execute(), when a stage fails and an ErrorHandler is registered, the
\* handler is invoked exactly once with that failure and the call rejects
\* with the same failure.
C1_ExecuteErrorHandler ==
  \A k \in CallIds :
    /\ calls[k].mode = "execute" => Len(EventsOf(k, "errorHandler")) <= 1
    /\ ( /\ calls[k].mode = "execute"
         /\ calls[k].pc = "settling"
         /\ chains[calls[k].chain].errorHandler
         /\ Fails(k) # << >> )
       => /\ Len(EventsOf(k, "errorHandler")) = 1
          /\ EventsOf(k, "errorHandler")[1].v = Fails(k)[1].v
          /\ calls[k].status = "rejected"
          /\ calls[k].value = Fails(k)[1].v

C1_Witness ==
  /\ calls["top"].mode = "execute"
  /\ calls["top"].pc = "settling"
  /\ chains["outer"].errorHandler
  /\ Fails("top") # << >>
  /\ Fails("top")[1].i = 2
  /\ EventsOf("top", "errorHandler") # << >>

\* C2: in executeAll(), when a stage fails and an ErrorHandler is registered,
\* the handler is invoked exactly once and the call still ends in failure:
\* the handler never turns the failure into a resolved outcome.
C2_ExecuteAllErrorHandler ==
  \A k \in CallIds :
    ( /\ calls[k].mode = "executeAll"
      /\ calls[k].pc = "settling"
      /\ chains[calls[k].chain].errorHandler
      /\ Fails(k) # << >> )
    => /\ Len(EventsOf(k, "errorHandler")) = 1
       /\ calls[k].status = "rejected"

\* C3: when all N stages succeed, executeAll() returns exactly N values, the
\* j-th being the mapped output of the j-th stage, and execute() returns the
\* mapped output of the N-th stage.
C3_AllStagesSucceed ==
  \A k \in CallIds :
    (IsChainCall(k) /\ calls[k].pc = "settling" /\ Fails(k) = << >>)
    => LET N == Len(StagesOf(k))
       IN /\ calls[k].status = "resolved"
          /\ calls[k].mode = "executeAll" =>
               /\ calls[k].isList
               /\ Len(calls[k].values) = N
               /\ \A j \in 1..N : calls[k].values[j] = ExpectedOutput(k, j)
          /\ calls[k].mode = "execute" =>
               /\ ~calls[k].isList
               /\ calls[k].value = ExpectedOutput(k, N)

C3_Witness ==
  /\ calls["top"].pc = "settling"
  /\ calls["top"].mode = "executeAll"
  /\ Fails("top") = << >>
  /\ Len(chains["outer"].requestList) = MaxStages
  /\ chains["outer"].requestList[1].mapper = "plain"
  /\ Len(calls["top"].values) = MaxStages

\* C4: the previous result a config factory of stage i receives is the mapped
\* output of stage i-1 of the same execution, and undefined for stage 1.
C4_PreviousResultIsMapped ==
  \A p \in 1..Len(log) :
    log[p].ev = "config" =>
      IF log[p].i = 1
      THEN log[p].v = Undefined
      ELSE log[p].v = ExpectedOutput(log[p].call, log[p].i - 1)

C4_Witness ==
  \E p \in 1..Len(log) :
    /\ log[p].ev = "config"
    /\ log[p].call = "top"
    /\ log[p].i = 2
    /\ chains["outer"].requestList[1].mapper = "plain"
    /\ log[p].v = MapperOut(RawOf("top", 1))

\* C5: a registered FinishHandler runs exactly once per execute()/executeAll()
\* call, on success and on failure, after any ResultHandler or ErrorHandler
\* invocation and before the call's promise settles.
C5_FinishHandlerOnce ==
  \A k \in CallIds :
    IsChainCall(k) =>
      /\ Len(EventsOf(k, "finishHandler")) <= 1
      /\ EventsOf(k, "finishHandler") # << >> =>
           calls[k].pc \in {"settling", "settled"}
      /\ (calls[k].pc = "settling" /\ chains[calls[k].chain].finishHandler) =>
           /\ Len(EventsOf(k, "finishHandler")) = 1
           /\ \A p \in Positions(k, "finishHandler") :
                \A q \in Positions(k, "resultHandler")
                           \cup Positions(k, "errorHandler") : q < p

C5_Witness ==
  /\ calls["top"].pc = "settling"
  /\ calls["top"].status = "rejected"
  /\ chains["outer"].finishHandler
  /\ EventsOf("top", "errorHandler") # << >>
  /\ Len(EventsOf("top", "finishHandler")) = 1

\* C6: a ResultHandler is never invoked in a call in which a stage failed; when
\* invoked it receives the final value (execute) or the full ordered sequence
\* of stage outputs (executeAll).
C6_ResultHandlerOnSuccess ==
  \A k \in CallIds :
    \A p \in Positions(k, "resultHandler") :
      LET N == Len(calls[k].results)
      IN /\ Fails(k) = << >>
         /\ calls[k].pc = "settling" => N = Len(StagesOf(k))
         /\ calls[k].mode = "execute" =>
              /\ log[p].v = ExpectedOutput(k, N)
              /\ log[p].v = calls[k].value
         /\ calls[k].mode = "executeAll" =>
              /\ Len(log[p].vs) = N
              /\ \A j \in 1..N : log[p].vs[j] = ExpectedOutput(k, j)
              /\ log[p].vs = calls[k].values

C6_Witness ==
  /\ calls["top"].mode = "executeAll"
  /\ calls["top"].pc = "settling"
  /\ Len(calls["top"].results) = MaxStages
  /\ Positions("top", "resultHandler") # {}

\* C7: when stage i fails, nothing of a later stage runs in that call: after
\* the failure the call only invokes its ErrorHandler and FinishHandler.
C7_FailureAborts ==
  \A p \in 1..Len(log) :
    log[p].ev = "fail" =>
      /\ calls[log[p].call].i = log[p].i
      /\ calls[log[p].call].pc \in {"rejected", "settling", "settled"}
      /\ \A q \in (p + 1)..Len(log) :
           /\ log[q].call = log[p].call =>
                log[q].ev \in {"errorHandler", "finishHandler"}
           /\ log[p].call \in TopCalls => log[q].call = log[p].call

C7_Witness ==
  /\ Fails("top") # << >>
  /\ Fails("top")[1].i = 1
  /\ Len(chains["outer"].requestList) = MaxStages
  /\ calls["top"].pc = "settled"

\* C8: executeRequest validates the url before createRequest: for a url the
\* guard rejects, createRequest is never invoked and executeRequest fails with
\* the validation error.
C8_GuardBeforeTransport ==
  \A k \in CallIds :
    calls[k].mode = "direct" =>
      LET verdict == validateUrl(calls[k].config.url, adapters["A1"].options)
      IN /\ Positions(k, "validateUrl") # {}
         /\ \A p \in Positions(k, "createRequest") :
              \E q \in Positions(k, "validateUrl") : q < p
         /\ verdict # "ok" =>
              /\ Positions(k, "createRequest") = {}
              /\ calls[k].pc = "settled"
              /\ calls[k].status = "rejected"
              /\ calls[k].value = SSRFError(verdict, calls[k].config.url)

C8_Witness ==
  /\ calls["top"].mode = "direct"
  /\ calls["top"].config.url = Url("https", IPv4("10.1.2.3", 10, 1, 2, 3))
  /\ calls["top"].status = "rejected"
  /\ calls["top"].value[1] = "SSRFError"
  /\ Positions("top", "createRequest") = {}

\* C9: every transport call made for a chain goes through executeRequest: each
\* createRequest follows the validation of the same request by the chain's
\* adapter, and that validation passed.
C9_NoBypass ==
  \A p \in 1..Len(log) :
    log[p].ev = "createRequest" =>
      /\ p > 1
      /\ log[p - 1] = [log[p] EXCEPT !.ev = "validateUrl"]
      /\ log[p].a = chains[calls[log[p].call].chain].adapter
      /\ validateUrl(Url(log[p].v[1], HostByName(log[p].v[2])),
                     adapters[log[p].a].options) = "ok"

C9_Witness ==
  /\ \E p \in 1..Len(log) : log[p].ev = "createRequest" /\ log[p].call = "top"
  /\ Fails("top") # << >>
  /\ Fails("top")[1].v[1] = "SSRFError"
  /\ Positions("top", "createRequest") = {2}

\* C10: for a loopback url such as http://127.0.0.1/x, executeRequest fails
\* with the SSRF error and makes no transport call when allowLocalhost is
\* unset, and passes validation and calls the transport once when it is set.
C10_Loopback ==
  \A k \in CallIds :
    ( /\ calls[k].mode = "direct"
      /\ IsLoopback(calls[k].config.url.host)
      /\ calls[k].config.url.scheme \in {"http", "https"} )
    => LET options == adapters["A1"].options
           url == calls[k].config.url
       IN /\ (~options.allowLocalhost /\ url.host.name \notin options.allowedHosts)
               => /\ calls[k].status = "rejected"
                  /\ calls[k].value = SSRFError("loopback", url)
                  /\ Positions(k, "createRequest") = {}
          /\ options.allowLocalhost
               => /\ Len(EventsOf(k, "createRequest")) = 1
                  /\ EventsOf(k, "createRequest")[1].v = Flat(calls[k].config)
                  /\ calls[k].status = "rejected" => calls[k].value = TransportError

C10_Witness ==
  /\ calls["top"].mode = "direct"
  /\ calls["top"].config.url = LoopbackUrl
  /\ adapters["A1"].options = [DefaultOptions EXCEPT !.allowLocalhost = TRUE]
  /\ calls["top"].status = "resolved"
  /\ Len(EventsOf("top", "createRequest")) = 1

\* the events of a stage's own evaluation
StageEvents ==
  {"config", "validateUrl", "createRequest", "request.execute", "raw",
   "mapper", "mapped", "result"}

\* C11: a stage whose precondition returns false is skipped: its config
\* factory, its dispatch and its mapper are never invoked, and the next stage
\* receives as previous result the mapped result of the stage before the
\* skipped one.
C11_PreconditionSkips ==
  \A p \in 1..Len(log) :
    LET e == log[p]
    IN (IsChainCall(e.call) /\ e.i >= 1 /\ e.i <= Len(StagesOf(e.call))) =>
         /\ StagesOf(e.call)[e.i].precondition = "false"
              => e.ev \notin StageEvents
         /\ ( /\ e.ev = "config"
              /\ e.i >= 2
              /\ StagesOf(e.call)[e.i - 1].precondition = "false" )
            => e.v = IF e.i = 2 THEN Undefined
                     ELSE StagesOf(e.call)[e.i - 2].result

\* C12: a mapper that returns a plain value and a mapper that returns a promise
\* of it are observably the same: the stage's cached result, the previous
\* result handed to the next stage and the value the call returns are the
\* resolved value in both cases.
C12_MapperKindsEquivalent ==
  \A k \in CallIds :
    IsChainCall(k) =>
      \A p \in Positions(k, "result") :
        LET j == log[p].i
            N == Len(StagesOf(k))
            v == MapperOut(RawOf(k, j))
        IN StagesOf(k)[j].mapper \in {"plain", "promise"} =>
             /\ log[p].v = v
             /\ StagesOf(k)[j].result = v
             /\ \A q \in Positions(k, "config") : log[q].i = j + 1 => log[q].v = v
             /\ (calls[k].pc = "settling" /\ calls[k].status = "resolved") =>
                  /\ calls[k].mode = "executeAll" => calls[k].values[j] = v
                  /\ (calls[k].mode = "execute" /\ j = N) => calls[k].value = v

C12_Witness ==
  /\ calls["top"].pc = "settling"
  /\ calls["top"].status = "resolved"
  /\ calls["top"].mode = "executeAll"
  /\ Len(StagesOf("top")) = 2
  /\ StagesOf("top")[1].mapper = "promise"
  /\ StagesOf("top")[2].mapper = "plain"
  /\ StagesOf("top")[2].config = "factory"
  /\ StagesOf("top")[2].precondition = "none"

\* the last event ev of call k before position p of the log, or 0
LastBefore(k, ev, p) ==
  LET qs == {q \in 1..(p - 1) : log[q].call = k /\ log[q].ev = ev}
  IN IF qs = {} THEN 0 ELSE CHOOSE q \in qs : \A r \in qs : r <= q

\* C13: a manager stage collapses its nested chain into one value: the raw
\* result of the manager stage (what its mapper is given, or what is forwarded
\* when it has no mapper) equals the nested chain's final mapped output,
\* whatever the nested chain's length and whatever the parent's adapter.
C13_ManagerCollapses ==
  \A k \in TopCalls :
    IsChainCall(k) =>
      \A p \in Positions(k, "raw") :
        LET q == LastBefore(ChildOf(k), "result", p)
        IN (isPipelineManagerStage(StagesOf(k)[log[p].i]) /\ q > 0)
           => log[p].v = log[q].v

\* the position of the latest event ev of call k in the log, or 0
Latest(k, ev) == LastBefore(k, ev, Len(log) + 1)

\* C14: the nested chain of a manager stage runs to full completion, its own
\* result / error / finish handler invocations included, before the parent
\* runs the manager stage's mapper or starts its next stage: no event of the
\* parent falls between the events of the nested run.
C14_NestedRunsToCompletion ==
  \A k \in TopCalls :
    IsChainCall(k) =>
      /\ InFlight(ChildOf(k)) => calls[k].pc = "awaitNested"
      /\ LET p == Latest(k, "request.execute")
             child == ChildOf(k)
         IN \A q \in (p + 1)..Len(log) :
              (p > 0 /\ log[q].call = k) =>
                /\ \A r \in 1..Len(log) : log[r].call = child => (p < r /\ r < q)
                /\ \E r \in (p + 1)..(q - 1) :
                     log[r].call = child /\ log[r].ev = "finishHandler"
                /\ \E r \in (p + 1)..(q - 1) :
                     /\ log[r].call = child
                     /\ log[r].ev \in {"resultHandler", "errorHandler"}

C14_Witness ==
  /\ calls["top"].pc = "settling"
  /\ calls["top"].status = "resolved"
  /\ Len(StagesOf("top")) = 2
  /\ isPipelineManagerStage(StagesOf("top")[1])
  /\ StagesOf("top")[1].mapper = "plain"
  /\ isPipelineRequestStage(StagesOf("top")[2])
  /\ EventsOf("nested", "resultHandler") # << >>
  /\ EventsOf("nested", "finishHandler") # << >>
  /\ \E p \in Positions("top", "mapper") : log[p].i = 1

\* C15: a nested chain used as a manager stage receives the parent's previous
\* result: the config factory of the nested chain's first stage is invoked
\* with the mapped output of the parent stage before the manager stage.
C15_NestedReceivesPrevious ==
  \A k \in TopCalls :
    IsChainCall(k) =>
      LET p == Latest(k, "request.execute")
      IN \A q \in Positions(ChildOf(k), "config") :
           (p > 0 /\ q > p /\ log[q].i = 1) =>
             log[q].v = PreviousResult(StagesOf(k), log[p].i)

\* the retries call k has made for its stage i, and how often it has handed
\* stage i to the transport
RetriesOf(k, i) == SelectSeq(calls[k].retries, LAMBDA r : r.i = i)
Dispatches(k, i) ==
  Cardinality({p \in Positions(k, "createRequest") : log[p].i = i})

\* C16: with a retry policy of maxRetries M, a transport that fails k <= M
\* times with retryable failures and then succeeds makes the stage succeed on
\* attempt k + 1, and the chain with it; the delay before retry n (from 0) is
\* retryDelay * 2^n with exponentialBackoff and retryDelay without.
C16_RetryThenSucceed ==
  \A k \in CallIds :
    IsChainCall(k) =>
      /\ \A i \in 1..Len(StagesOf(k)) :
           LET retries == RetriesOf(k, i)
               retryPolicy == StagesOf(k)[i].retryPolicy
           IN \A m \in 1..Len(retries) :
                /\ retries[m].n = m - 1
                /\ retries[m].delay =
                     IF retryPolicy.exponentialBackoff
                     THEN retryPolicy.retryDelay * 2 ^ (m - 1)
                     ELSE retryPolicy.retryDelay
      /\ \A p \in Positions(k, "raw") :
           LET i == log[p].i
           IN /\ Dispatches(k, i) = Len(RetriesOf(k, i)) + 1
              /\ Len(RetriesOf(k, i)) <= StagesOf(k)[i].retryPolicy.maxRetries
              /\ \A q \in Positions(k, "fail") :
                   log[q].i = i => log[q].v \notin TransportErrors
      /\ ( /\ calls[k].pc = "settling"
           /\ \A i \in 1..Len(StagesOf(k)) :
                \E p \in Positions(k, "result") : log[p].i = i )
         => calls[k].status = "resolved"

C16_Witness ==
  /\ calls["top"].pc = "settling"
  /\ calls["top"].status = "resolved"
  /\ Len(calls["top"].retries) = 2
  /\ calls["top"].retries[1].delay = 100
  /\ calls["top"].retries[2].delay = 200
  /\ calls["top"].retries[1].i = calls["top"].retries[2].i
  /\ Dispatches("top", calls["top"].retries[1].i) = 3

\* C17: a failed dispatch is retried only if retryCondition(failure) holds and
\* fewer than maxRetries retries have been made; otherwise the failure is
\* terminal and takes the engine's failure path.  One execution hands a stage
\* to the transport at most maxRetries + 1 times.
C17_RetryBudget ==
  \A k \in CallIds :
    IsChainCall(k) =>
      /\ \A m \in 1..Len(calls[k].retries) :
           LET r == calls[k].retries[m]
               retryPolicy == StagesOf(k)[r.i].retryPolicy
           IN /\ retryPolicy.enabled
              /\ retryCondition(retryPolicy, r.error)
              /\ r.n < retryPolicy.maxRetries
      /\ \A i \in 1..Len(StagesOf(k)) :
           Dispatches(k, i) <= StagesOf(k)[i].retryPolicy.maxRetries + 1
      /\ \A q \in Positions(k, "fail") :
           LET i == log[q].i
               retryPolicy == StagesOf(k)[i].retryPolicy
           IN log[q].v \in TransportErrors =>
                /\ \/ ~retryPolicy.enabled
                   \/ ~retryCondition(retryPolicy, log[q].v)
                   \/ Len(RetriesOf(k, i)) >= retryPolicy.maxRetries
                /\ \A p \in (q + 1)..Len(log) :
                     log[p].call = k => log[p].ev \notin StageEvents \cup {"retry"}
                /\ calls[k].pc \in {"rejected", "settling", "settled"}
                /\ calls[k].pc = "settling" =>
                     (calls[k].status = "rejected" /\ calls[k].value = log[q].v)

C17_Witness ==
  /\ calls["top"].pc = "settling"
  /\ calls["top"].status = "rejected"
  /\ Len(calls["top"].retries) = 3
  /\ Dispatches("top", 1) = 4
  /\ calls["top"].value = HttpError("503")

\* C18: only a transport failure of a stage that carries a retryPolicy is
\* retried: a stage without retryPolicy is handed to the adapter at most once
\* per execution, and a failure of the config factory, the URL validation,
\* the mapper or an unknown stage type never leads to another dispatch.
C18_OnlyTransportRetried ==
  \A k \in CallIds :
    IsChainCall(k) =>
      /\ \A m \in 1..Len(calls[k].retries) :
           LET r == calls[k].retries[m]
           IN /\ r.error \in TransportErrors
              /\ StagesOf(k)[r.i].retryPolicy.enabled
              /\ isPipelineRequestStage(StagesOf(k)[r.i])
      /\ \A i \in 1..Len(StagesOf(k)) :
           ~StagesOf(k)[i].retryPolicy.enabled =>
             /\ Dispatches(k, i) <= 1
             /\ Cardinality({p \in Positions(k, "validateUrl") : log[p].i = i}) <= 1
      /\ \A q \in Positions(k, "fail") :
           log[q].v \notin TransportErrors =>
             \A p \in (q + 1)..Len(log) :
               log[p].call = k => log[p].ev \notin StageEvents \cup {"retry"}

C18_Witness ==
  /\ calls["top"].pc = "settling"
  /\ calls["top"].status = "rejected"
  /\ Len(StagesOf("top")) = 2
  /\ StagesOf("top")[2].retryPolicy.enabled
  /\ StagesOf("top")[2].url = LoopbackUrl
  /\ calls["top"].value = SSRFError("loopback", LoopbackUrl)
  /\ Len(calls["top"].retries) = 1
  /\ calls["top"].retries[1].i = 1

\* C19: the default retryCondition holds exactly for connection-level failures
\* without an HTTP status and for failures whose status is in the allow-set
\* (429, 500, 502, 503, 504): under a policy with the default condition these
\* failures are retried while the budget lasts, and every other failure is
\* terminal at once.
C19_DefaultRetryCondition ==
  \A k \in CallIds :
    IsChainCall(k) =>
      \A i \in 1..Len(StagesOf(k)) :
        LET retryPolicy == StagesOf(k)[i].retryPolicy
            retries == RetriesOf(k, i)
            Retryable(e) ==
              \/ e[1] = "NetworkError"
              \/ e[1] = "HttpError" /\ e[2] \in {"429", "500", "502", "503", "504"}
        IN (retryPolicy.enabled /\ retryPolicy.retryCondition = "default") =>
             /\ \A m \in 1..Len(retries) : Retryable(retries[m].error)
             /\ \A q \in Positions(k, "fail") :
                  ( /\ log[q].i = i
                    /\ log[q].v \in TransportErrors
                    /\ Len(retries) < retryPolicy.maxRetries )
                  => ~Retryable(log[q].v)

C19_Witness ==
  /\ calls["top"].pc = "settling"
  /\ calls["top"].status = "rejected"
  /\ StagesOf("top")[1].retryPolicy = BackoffPolicy
  /\ calls["top"].value = HttpError("404")
  /\ Len(calls["top"].retries) = 2
  /\ calls["top"].retries[1].error = NetworkError
  /\ calls["top"].retries[2].error = HttpError("503")

\* the position of the latest "result" event of call k for stage j, or 0
ResultPos(k, j) ==
  LET qs == {q \in Positions(k, "result") : log[q].i = j}
  IN IF qs = {} THEN 0 ELSE CHOOSE q \in qs : \A r \in qs : r <= q

\* C20: overlapping calls of one chain race on the stages' shared result
\* caches: once both calls have stored a result for a stage, the cache holds
\* the result of whichever call stored last, so the value left behind depends
\* on the interleaving and not on the order in which the calls were started.
C20_CacheRace ==
  \A j \in 1..Len(chains["outer"].requestList) :
    LET p1 == ResultPos("top", j)
        p2 == ResultPos("top2", j)
    IN (p1 > 0 /\ p2 > 0) =>
         chains["outer"].requestList[j].result =
           log[IF p1 > p2 THEN p1 ELSE p2].v

\* top was started first, the two calls overlapped and produced different
\* results for stage 1, and the cache is left with the result of top
C20_Witness ==
  /\ calls["top"].pc = "settled"
  /\ calls["top2"].pc = "settled"
  /\ LET p1 == ResultPos("top", 1)
         p2 == ResultPos("top2", 1)
     IN /\ p1 > 0
        /\ p2 > 0
        /\ p2 < p1
        /\ log[1].call = "top"
        /\ log[p1].v # log[p2].v
        /\ chains["outer"].requestList[1].result = log[p1].v
        /\ calls["top2"].values[1] = log[p2].v

\* what stage j of chain c outputs when the chain runs alone and the
\* transport answers every request
RECURSIVE AloneOutput(_, _)
AloneOutput(c, j) ==
  IF j = 0 THEN Undefined
  ELSE LET stage == chains[c].requestList[j]
           raw == getResult(adapters[chains[c].adapter].kind,
                            Response(ResolveConfig(stage, AloneOutput(c, j - 1))))
       IN IF stage.mapper = "none" THEN raw ELSE MapperOut(raw)

\* C21: two independent chains that share one adapter run concurrently
\* without interfering: under every interleaving each call returns the
\* outputs, and invokes the handlers, it would when run alone.
C21_IndependentChains ==
  \A k \in CallIds :
    IsChainCall(k) =>
      LET c == calls[k].chain
          N == Len(StagesOf(k))
      IN /\ \A p \in Positions(k, "result") :
              log[p].v = AloneOutput(c, log[p].i)
         /\ \A p \in 1..Len(log) :
              (log[p].call = k /\ log[p].ev \in {"validateUrl", "createRequest"})
              => log[p].v = Flat(ResolveConfig(StagesOf(k)[log[p].i],
                                               AloneOutput(c, log[p].i - 1)))
         /\ (calls[k].pc = "settling" /\ Fails(k) = << >>) =>
              /\ calls[k].status = "resolved"
              /\ Len(EventsOf(k, "resultHandler")) = 1
              /\ Len(EventsOf(k, "errorHandler")) = 0
              /\ Len(EventsOf(k, "finishHandler")) = 1
              /\ calls[k].mode = "execute" =>
                   /\ calls[k].value = AloneOutput(c, N)
                   /\ EventsOf(k, "resultHandler")[1].v = AloneOutput(c, N)
              /\ calls[k].mode = "executeAll" =>
                   /\ calls[k].values = [j \in 1..N |-> AloneOutput(c, j)]
                   /\ EventsOf(k, "resultHandler")[1].vs = calls[k].values
         /\ (calls[k].pc = "settling" /\ Fails(k) # << >>) =>
              /\ Len(Fails(k)) = 1
              /\ Len(EventsOf(k, "resultHandler")) = 0
              /\ Len(EventsOf(k, "errorHandler")) = 1
              /\ EventsOf(k, "errorHandler")[1].v = TransportError
              /\ Len(EventsOf(k, "finishHandler")) = 1
              /\ calls[k].value = TransportError

\* both calls overlap: each has started before the other one has settled
C21_Witness ==
  /\ calls["top"].pc = "settling"
  /\ calls["top2"].pc = "settling"
  /\ calls["top"].status = "resolved"
  /\ calls["top2"].status = "resolved"
  /\ Len(StagesOf("top")) = 2
  /\ Len(EventsOf("top", "resultHandler")) = 1
  /\ Len(EventsOf("top2", "resultHandler")) = 1
  /\ \E p \in Positions("top", "result"), q \in Positions("top2", "result"),
        r \in Positions("top", "result") : p < q /\ q < r

\* C22: within one execution the stages run strictly one after the other: the
\* config resolution and the dispatch of stage i + 1 start only after the
\* dispatch of stage i has completed and its mapper has resolved, so the
\* events of one execution never go back to an earlier stage.
C22_StagesSequential ==
  \A k \in CallIds :
    IsChainCall(k) =>
      \A q \in 1..Len(log) :
        (log[q].call = k /\ log[q].ev \in StageEvents \cup {"fail"}) =>
          /\ \A p \in 1..(q - 1) :
               (log[p].call = k /\ log[p].ev \in StageEvents \cup {"fail"})
               => log[p].i <= log[q].i
          /\ log[q].i >= 2 =>
               LET j == log[q].i - 1
               IN /\ \E p \in 1..(q - 1) :
                       log[p].call = k /\ log[p].ev = "raw" /\ log[p].i = j
                  /\ \E p \in 1..(q - 1) :
                       log[p].call = k /\ log[p].ev = "result" /\ log[p].i = j
                  /\ StagesOf(k)[j].mapper # "none" =>
                       \E p \in 1..(q - 1) :
                         log[p].call = k /\ log[p].ev = "mapped" /\ log[p].i = j

C22_Witness ==
  /\ calls["top"].pc = "awaitTransport"
  /\ calls["top"].i = 2
  /\ StagesOf("top")[1].mapper = "plain"
  /\ StagesOf("top")[2].config = "factory"
  /\ \E p \in Positions("top", "createRequest") : log[p].i = 2


\* the events of call k that follow position p of the log
EventsAfter(k, p) == {q \in (p + 1)..Len(log) : log[q].call = k}

\* C23: when the config factory of a stage throws, the adapter is not
\* dispatched for that stage (no URL validation, no createRequest, no retry),
\* no later stage runs, and the call ends through the failure path with the
\* factory's error: the ErrorHandler, if registered, receives it once, the
\* ResultHandler is not invoked, and execute() rejects with it.
C23_ConfigFactoryThrows ==
  \A k \in CallIds :
    IsChainCall(k) =>
      \A p \in Positions(k, "config") :
        LET i == log[p].i
        IN StagesOf(k)[i].config = "throws" =>
             /\ Dispatches(k, i) = 0
             /\ \A q \in Positions(k, "validateUrl") : log[q].i # i
             /\ RetriesOf(k, i) = << >>
             /\ p < Len(log)
             /\ log[p + 1] = Event(k, "fail", i, "", ConfigError, << >>)
             /\ \A q \in EventsAfter(k, p) :
                  log[q].ev \notin StageEvents /\ (log[q].ev = "fail" => q = p + 1)
             /\ calls[k].pc \in {"rejected", "settling", "settled"}
             /\ calls[k].pc = "settling" =>
                  /\ calls[k].value = ConfigError
                  /\ calls[k].mode = "execute" => calls[k].status = "rejected"
                  /\ EventsOf(k, "resultHandler") = << >>
                  /\ EventsOf(k, "errorHandler") =
                       IF chains[calls[k].chain].errorHandler
                       THEN <<Event(k, "errorHandler", 0, "", ConfigError, << >>)>>
                       ELSE << >>

C23_Witness ==
  /\ calls["top"].pc = "settling"
  /\ calls["top"].mode = "execute"
  /\ chains["outer"].errorHandler
  /\ \E p \in Positions("top", "fail") : log[p].i = 2 /\ log[p].v = ConfigError
  /\ Dispatches("top", 1) = 1


\* C24: a stage that has neither the shape of a request stage (a config) nor
\* that of a manager stage (a request) makes the execution fail with the
\* unknown-type error as soon as it is reached, with no dispatch for that
\* stage, and the failure takes the path of any other failure: ErrorHandler
\* once if registered, no ResultHandler, execute() rejects with the error.
C24_UnknownStageFails ==
  \A k \in CallIds :
    IsChainCall(k) =>
      /\ \A p \in 1..Len(log) :
           (log[p].call = k /\ log[p].ev \in StageEvents) =>
             \/ StagesOf(k)[log[p].i].hasConfig
             \/ StagesOf(k)[log[p].i].hasRequest
      /\ ( /\ InFlight(k)
           /\ calls[k].i \in 1..Len(StagesOf(k))
           /\ ~StagesOf(k)[calls[k].i].hasConfig
           /\ ~StagesOf(k)[calls[k].i].hasRequest ) =>
           LET i == calls[k].i
           IN /\ Fails(k) = <<Event(k, "fail", i, "", UnknownTypeError, << >>)>>
              /\ Dispatches(k, i) = 0
              /\ RetriesOf(k, i) = << >>
              /\ \A p \in Positions(k, "fail") :
                   \A q \in EventsAfter(k, p) : log[q].ev \notin StageEvents
              /\ calls[k].pc \in {"rejected", "settling"}
              /\ calls[k].pc = "settling" =>
                   /\ calls[k].value = UnknownTypeError
                   /\ calls[k].mode = "execute" => calls[k].status = "rejected"
                   /\ EventsOf(k, "resultHandler") = << >>
                   /\ EventsOf(k, "errorHandler") =
                        IF chains[calls[k].chain].errorHandler
                        THEN <<Event(k, "errorHandler", 0, "", UnknownTypeError, << >>)>>
                        ELSE << >>

C24_Witness ==
  /\ calls["top"].pc = "settling"
  /\ calls["top"].i = 2
  /\ Len(StagesOf("top")) = 2
  /\ StagesOf("top")[2] = UnknownStage
  /\ chains["outer"].errorHandler
  /\ EventsOf("top", "errorHandler") # << >>
  /\ Dispatches("top", 1) = 1


\* the adapter of the latest setRequestAdapter call on chain c, or the adapter
\* the chain was created with when there was none
LastAdapterSet(c) ==
  LET ps == {p \in 1..Len(log) : log[p].call = c /\ log[p].ev = "setRequestAdapter"}
  IN IF ps = {} THEN "A1" ELSE log[CHOOSE p \in ps : TRUE].a

C25_DispatchedThroughLastSet ==
  \A k \in CallIds :
    (IsChainCall(k) /\ InFlight(k)) =>
      LET a == LastAdapterSet(calls[k].chain)
      IN \A p \in 1..Len(log) :
           (log[p].call = k /\ log[p].ev \in {"validateUrl", "createRequest", "raw"}) =>
             /\ log[p].a = a
             /\ log[p].ev = "raw" =>
                  \E q \in Positions(k, "createRequest"), body \in Bodies :
                    /\ q < p
                    /\ log[q].i = log[p].i
                    /\ log[p].v = getResult(adapters[a].kind, log[q].v \o <<body>>)

C25_SetAdapterFrame ==
  \A c \in ChainIds :
    chains'[c].adapter # chains[c].adapter =>
      /\ chains'[c] = [chains[c] EXCEPT !.adapter = LastAdapterSet(c)']
      /\ calls' = calls
      /\ adapters' = adapters

\* C25: after setRequestAdapter(a) on a chain, every request stage of every
\* later execution is validated and dispatched through a and its result passes
\* through a.getResult; the adapter the chain was created with is not used any
\* more; the call changes nothing else: stage list and handlers stay as they are.
C25_SetRequestAdapter ==
  /\ []C25_DispatchedThroughLastSet
  /\ [][C25_SetAdapterFrame]_vars

C25_Witness ==
  /\ LastAdapterSet("outer") = "A2"
  /\ calls["top"].pc = "settling"
  /\ calls["top"].status = "resolved"
  /\ Len(StagesOf("top")) = 2
  /\ \A j \in 1..2 :
       /\ \E p \in Positions("top", "createRequest") : log[p].i = j /\ log[p].a = "A2"
       /\ \E p \in Positions("top", "raw") :
            log[p].i = j /\ log[p].a = "A2" /\ log[p].v[Len(log[p].v)] = "customParam"


\* the cached results after call k are those of its own execution
CacheHoldsOutputsOf(k) ==
  /\ calls[k].status = "resolved"
  /\ \A j \in 1..Len(StagesOf(k)) :
       /\ ResultPos(k, j) > 0
       /\ StagesOf(k)[j].result = log[ResultPos(k, j)].v
       /\ StagesOf(k)[j].result = ExpectedOutput(k, j)

\* another call of the same chain was active while call k ran
Overlapped(k) ==
  \E p \in 1..Len(log), q \in 1..Len(log) :
    /\ log[p].call = k
    /\ p < q
    /\ log[q].call \in CallIds \ {k}
    /\ calls[log[q].call].chain = calls[k].chain

\* C26 as stated: after every successful execute() / executeAll(), the cached
\* result of each stage is the mapped output the stage produced in that
\* execution.
C26_EveryExecution ==
  \A k \in CallIds :
    (IsChainCall(k) /\ calls[k].pc = "settling" /\ Fails(k) = << >>) =>
      CacheHoldsOutputsOf(k)

\* C26: when an execute() / executeAll() that no other execution of the same
\* chain overlapped has succeeded, the cached result of each stage is the
\* mapped output the stage produced in that execution, whatever an earlier
\* execution of the chain had cached there.
C26_CacheOverwritten ==
  \A k \in CallIds :
    ( /\ IsChainCall(k)
      /\ calls[k].pc = "settling"
      /\ Fails(k) = << >>
      /\ ~Overlapped(k) ) =>
      CacheHoldsOutputsOf(k)

C26_Witness ==
  /\ calls["top"].pc = "settled"
  /\ calls["top2"].pc = "settling"
  /\ Fails("top") = << >>
  /\ Fails("top2") = << >>
  /\ ~Overlapped("top2")
  /\ Len(StagesOf("top2")) = 2
  /\ \A j \in 1..2 :
       /\ ResultPos("top", j) > 0
       /\ ResultPos("top", j) < ResultPos("top2", j)
       /\ log[ResultPos("top", j)].v # log[ResultPos("top2", j)].v
       /\ StagesOf("top2")[j].result = log[ResultPos("top2", j)].v


\* C27: the allowedHosts the adapter was constructed with override the
\* guard's loopback and private-range blocks: an http(s) url whose host is an
\* entry of allowedHosts passes validation and reaches createRequest once,
\* also when the host is loopback or private and allowLocalhost /
\* allowPrivateNetworks are unset.
C27_AllowedHostsOverride ==
  \A k \in CallIds :
    LET options == adapters["A1"].options
        url == calls[k].config.url
    IN ( /\ calls[k].mode = "direct"
         /\ url.scheme \in {"http", "https"}
         /\ url.host.name \in options.allowedHosts ) =>
         /\ validateUrl(url, options) = "ok"
         /\ Len(EventsOf(k, "validateUrl")) = 1
         /\ Len(EventsOf(k, "createRequest")) = 1
         /\ EventsOf(k, "createRequest")[1].v = Flat(calls[k].config)
         /\ calls[k].status = "rejected" => calls[k].value = TransportError
         /\ calls[k].status = "resolved" => calls[k].value = Response(calls[k].config)

C27_Witness ==
  /\ \E k \in CallIds :
       /\ calls[k].mode = "direct"
       /\ calls[k].status = "resolved"
       /\ IsLoopback(calls[k].config.url.host)
       /\ calls[k].config.url.host.name \in adapters["A1"].options.allowedHosts
       /\ Len(EventsOf(k, "createRequest")) = 1
  /\ ~adapters["A1"].options.allowLocalhost
  /\ ~adapters["A1"].options.allowPrivateNetworks


\* C28: when calls of one chain overlap, each stage after the first of each
\* call still receives as previous result the mapped output of the stage
\* before it produced by the same call: the config factory is handed that
\* value and the request is built from it, never from a value the other call
\* wrote to the cache.
C28_OwnPreviousResult ==
  \A p \in 1..Len(log) :
    LET k == log[p].call
        i == log[p].i
    IN (k \in CallIds /\ IsChainCall(k) /\ i >= 2) =>
         /\ log[p].ev = "config" =>
              /\ ResultPos(k, i - 1) \in 1..(p - 1)
              /\ log[p].v = log[ResultPos(k, i - 1)].v
         /\ (log[p].ev = "createRequest" /\ StagesOf(k)[i].config = "factory") =>
              log[p].v = Flat(ResolveConfig(StagesOf(k)[i],
                                            log[ResultPos(k, i - 1)].v))

C28_Witness ==
  /\ calls["top"].mode = "execute"
  /\ calls["top2"].mode = "execute"
  /\ \E p \in Positions("top", "config"), q \in Positions("top2", "config") :
       /\ log[p].i = 2
       /\ log[q].i = 2
       /\ q < ResultPos("top", 1)
       /\ ResultPos("top", 1) < p
       /\ log[p].v # log[q].v
       /\ \E r \in Positions("top2", "raw") : log[r].i = 2 /\ p < r


\* C29: on every successful execute() with a ResultHandler registered, the
\* handler is invoked exactly once with the final mapped value, whatever that
\* value is, a falsy one such as undefined included.
C29_ResultHandlerAlways ==
  \A k \in CallIds :
    ( /\ calls[k].mode = "execute"
      /\ calls[k].pc = "settling"
      /\ Fails(k) = << >>
      /\ chains[calls[k].chain].resultHandler ) =>
      EventsOf(k, "resultHandler") =
        <<Event(k, "resultHandler", 0, "", calls[k].results[Len(calls[k].results)],
                << >>)>>

\* C30: within one call of execute() or executeAll(), ResultHandler and
\* ErrorHandler are never both invoked, also when the ResultHandler throws.
C30_HandlersExclusive ==
  \A k \in CallIds :
    IsChainCall(k) =>
      ~ /\ EventsOf(k, "resultHandler") # << >>
        /\ EventsOf(k, "errorHandler") # << >>


\* the positions after p of the events ev of call k
After(k, ev, p) == {q \in Positions(k, ev) : q > p}

\* C31: when a stage of a nested chain fails, the nested execute() rejects,
\* the parent's manager stage fails with the same error and no later stage of
\* the parent runs; the nested chain's ErrorHandler and FinishHandler have
\* each fired once before the parent's stage fails, and the parent's
\* ErrorHandler and FinishHandler, where registered, each fire once after them.
C31_NestedFailurePropagates ==
  \A k \in TopCalls :
    LET p == Latest(k, "request.execute")
        child == ChildOf(k)
    IN ( /\ IsChainCall(k)
         /\ InFlight(k)
         /\ p > 0
         /\ After(child, "fail", p) # {}
         /\ calls[child].pc = "settled" ) =>
         LET error == log[CHOOSE q \in After(child, "fail", p) : TRUE].v
             i == log[p].i
         IN /\ Cardinality(After(child, "fail", p)) = 1
            /\ calls[child].status = "rejected"
            /\ calls[child].value = error
            /\ Cardinality(After(child, "errorHandler", p)) = 1
            /\ Cardinality(After(child, "finishHandler", p)) = 1
            /\ After(child, "resultHandler", p) = {}
            /\ \A q \in After(child, "errorHandler", p) :
                 /\ log[q].v = error
                 /\ \A r \in After(child, "finishHandler", p) : q < r
            /\ calls[k].pc # "awaitNested" =>
                 /\ Fails(k) = <<Event(k, "fail", i, "", error, << >>)>>
                 /\ \A q \in 1..Len(log) :
                      log[q].call = k =>
                        /\ log[q].i <= i
                        /\ (q > p /\ log[q].ev \in StageEvents) => FALSE
                 /\ \A q \in After(k, "fail", p), r \in After(child, "finishHandler", p) :
                      r < q
                 /\ calls[k].pc \in {"rejected", "settling"}
            /\ calls[k].pc = "settling" =>
                 /\ calls[k].value = error
                 /\ calls[k].mode = "execute" => calls[k].status = "rejected"
                 /\ EventsOf(k, "resultHandler") = << >>
                 /\ EventsOf(k, "errorHandler") =
                      IF chains[calls[k].chain].errorHandler
                      THEN <<Event(k, "errorHandler", 0, "", error, << >>)>>
                      ELSE << >>
                 /\ Len(EventsOf(k, "finishHandler")) =
                      IF chains[calls[k].chain].finishHandler THEN 1 ELSE 0
                 /\ \A q \in Positions(k, "errorHandler") :
                      /\ \A r \in After(child, "finishHandler", p) : r < q
                      /\ \A r \in Positions(k, "finishHandler") : q < r

C31_Witness ==
  /\ calls["top"].pc = "settling"
  /\ calls["top"].mode = "execute"
  /\ Len(StagesOf("top")) = 2
  /\ isPipelineManagerStage(StagesOf("top")[1])
  /\ chains["outer"].errorHandler
  /\ chains["outer"].finishHandler
  /\ Fails("nested") # << >>
  /\ Fails("nested")[1].i = 2
  /\ Len(EventsOf("top", "errorHandler")) = 1
  /\ Len(EventsOf("top", "finishHandler")) = 1
  /\ Len(EventsOf("nested", "errorHandler")) = 1


\* a stage's cached result changes only in the step in which a call of the
\* chain completes that stage, and becomes the result the call stored
C32_CacheFrame ==
  \A c \in ChainIds :
    \A j \in 1..Len(chains[c].requestList) :
      chains'[c].requestList[j].result # chains[c].requestList[j].result =>
        \E k \in CallIds :
          /\ calls[k].chain = c
          /\ calls[k].i = j
          /\ calls'[k].i > j
          /\ \E q \in 1..Len(log') :
               /\ q > Len(log)
               /\ log'[q] = Event(k, "result", j, "", chains'[c].requestList[j].result,
                                  << >>)

\* call k never stored a result for stage i or a later one, and the caches of
\* the stages before i hold what it stored
StoredUpTo(k, i) ==
  /\ calls[k].i = i
  /\ \A q \in Positions(k, "result") : log[q].i < i
  /\ \A j \in 1..(i - 1) :
       /\ ResultPos(k, j) > 0
       /\ StagesOf(k)[j].result = log[ResultPos(k, j)].v

\* C32 as stated: when stage i fails during an execution, the caches of the
\* stages before i hold the outputs of that execution (and the call stored
\* nothing from stage i on).
C32_EveryFailedExecution ==
  \A k \in CallIds :
    ( /\ IsChainCall(k)
      /\ calls[k].pc \in {"rejected", "settling"}
      /\ Fails(k) # << >> ) =>
      StoredUpTo(k, Fails(k)[1].i)

C32_FailedCallStored ==
  \A k \in CallIds :
    ( /\ IsChainCall(k)
      /\ calls[k].pc \in {"rejected", "settling"}
      /\ Fails(k) # << >>
      /\ ~Overlapped(k) ) =>
      StoredUpTo(k, Fails(k)[1].i)

\* C32: when stage i fails during an execution that no other execution of the
\* same chain overlapped, the cached results of stage i and of the later
\* stages are what they were before the call (a cache changes only in the step
\* in which a call completes that stage, and the failed call completed none
\* from i on), and the cached results of the stages before i hold the outputs
\* of the current execution.
C32_FailureLeavesLaterCaches ==
  /\ []C32_FailedCallStored
  /\ [][C32_CacheFrame]_vars

C32_Witness ==
  /\ calls["top"].pc = "settled"
  /\ calls["top"].status = "resolved"
  /\ Fails("top") = << >>
  /\ calls["top2"].pc = "settling"
  /\ Len(StagesOf("top2")) = 2
  /\ Fails("top2") # << >>
  /\ Fails("top2")[1].i = 2
  /\ ~Overlapped("top2")
  /\ ResultPos("top", 2) > 0
  /\ ResultPos("top", 2) < ResultPos("top2", 1)
  /\ StagesOf("top2")[2].result = log[ResultPos("top", 2)].v
  /\ StagesOf("top2")[1].result = log[ResultPos("top2", 1)].v
  /\ log[ResultPos("top", 1)].v # log[ResultPos("top2", 1)].v


\* the requests call k has handed to createRequest and what executeSingle
\* resolved with, in order
RequestsOf(k) ==
  LET es == EventsOf(k, "createRequest") IN [n \in 1..Len(es) |-> es[n].v]
RawsOf(k) ==
  LET es == EventsOf(k, "raw") IN [n \in 1..Len(es) |-> es[n].v]

\* in calls k1 and k2 the adapter has answered equal requests equally
SameAnswers(k1, k2) ==
  \A n \in 1..Len(RawsOf(k1)), m \in 1..Len(RawsOf(k2)) :
    RequestsOf(k1)[n] = RequestsOf(k2)[m] => RawsOf(k1)[n] = RawsOf(k2)[m]

\* C33: for one chain and an adapter whose answers depend on the request
\* only, a successful execute() returns the last element of what a successful
\* executeAll() returns, and both hand the same sequence of requests to the
\* adapter.
C33_ExecuteIsLastOfExecuteAll ==
  \A k1 \in CallIds, k2 \in CallIds :
    ( /\ calls[k1].mode = "execute"
      /\ calls[k2].mode = "executeAll"
      /\ calls[k1].chain = calls[k2].chain
      /\ calls[k1].pc \in {"settling", "settled"}
      /\ calls[k2].pc \in {"settling", "settled"}
      /\ Fails(k1) = << >>
      /\ Fails(k2) = << >>
      /\ SameAnswers(k1, k2) ) =>
      /\ calls[k1].status = "resolved"
      /\ calls[k2].status = "resolved"
      /\ calls[k2].isList
      /\ Len(calls[k2].values) = Len(StagesOf(k2))
      /\ calls[k1].value = calls[k2].values[Len(calls[k2].values)]
      /\ RequestsOf(k1) = RequestsOf(k2)
      /\ Len(RequestsOf(k1)) = Len(StagesOf(k1))

C33_Witness ==
  /\ calls["top"].mode = "execute"
  /\ calls["top2"].mode = "executeAll"
  /\ calls["top"].pc = "settled"
  /\ calls["top2"].pc = "settling"
  /\ SameAnswers("top", "top2")
  /\ Len(StagesOf("top")) = 2
  /\ Len(calls["top2"].values) = 2
  /\ calls["top"].value = calls["top2"].values[2]
  /\ calls["top"].value # calls["top2"].values[1]
  /\ Overlapped("top")


\* C34: an execution started after an earlier one has completed starts from a
\* clean context: the config factory of the first stage receives undefined,
\* never a result the earlier run cached, the factories of the later stages
\* receive what this run stored, and every stage is dispatched again.
C34_RerunStartsClean ==
  \A k \in CallIds :
    IsChainCall(k) =>
      /\ \A p \in Positions(k, "config") :
           /\ log[p].i = 1 => log[p].v = Undefined
           /\ log[p].i > 1 =>
                /\ ResultPos(k, log[p].i - 1) \in 1..(p - 1)
                /\ log[p].v = log[ResultPos(k, log[p].i - 1)].v
      /\ (calls[k].pc = "settling" /\ Fails(k) = << >>) =>
           \A j \in 1..Len(StagesOf(k)) : Dispatches(k, j) = 1

C34_Witness ==
  /\ calls["top"].pc = "settled"
  /\ Fails("top") = << >>
  /\ calls["top2"].pc = "settling"
  /\ Fails("top2") = << >>
  /\ Len(StagesOf("top2")) = 1
  /\ ResultPos("top", 1) > 0
  /\ Truthy(log[ResultPos("top", 1)].v)
  /\ \E p \in Positions("top2", "config") :
       /\ log[p].i = 1
       /\ ResultPos("top", 1) < p
       /\ log[p].v = Undefined
  /\ Dispatches("top2", 1) = 1


\* a handler of call k has thrown
HandlerThrew(k) ==
  \/ calls[k].pending = ResultHandlerError
  \/ calls[k].value = ErrorHandlerError

\* C35: the FinishHandler runs exactly once per call also when the registered
\* ResultHandler or ErrorHandler throws, and the call then ends in failure.
C35_FinishOnceWhenHandlerThrows ==
  \A k \in CallIds :
    ( /\ IsChainCall(k)
      /\ calls[k].pc = "settling"
      /\ chains[calls[k].chain].finishHandler
      /\ HandlerThrew(k) ) =>
      /\ Len(EventsOf(k, "finishHandler")) = 1
      /\ log[Len(log)] = Event(k, "finishHandler", 0, "", Undefined, << >>)
      /\ calls[k].status = "rejected"


\* the number of stages the chain of call k had when the call started: those
\* it has now less those appended after the call's first event
StagesAtStart(k) ==
  LET first == CHOOSE p \in 1..Len(log) :
                 log[p].call = k /\ \A q \in 1..(p - 1) : log[q].call # k
  IN Len(StagesOf(k)) -
       Cardinality({q \in 1..Len(log) :
                      /\ q > first
                      /\ log[q].call = calls[k].chain
                      /\ log[q].ev \in {"addRequestEntity", "addAll"}})

\* C36: the stages an execute() / executeAll() call runs are fixed when the
\* call starts: a stage appended with next() or addAll() while the call is
\* suspended is not run by it and does not change what it returns.
C36_StageSetFixedAtStart ==
  \A k \in CallIds :
    IsChainCall(k) =>
      LET n == StagesAtStart(k)
      IN /\ \A p \in 1..Len(log) : log[p].call = k => log[p].i <= n
         /\ calls[k].pc = "settling" =>
              /\ calls[k].mode = "execute" =>
                   /\ ResultPos(k, n) > 0
                   /\ calls[k].value = log[ResultPos(k, n)].v
              /\ calls[k].mode = "executeAll" => Len(calls[k].values) = n


\* C37: a stage literal that carries both a config key and a request key is
\* dispatched as a request stage through the adapter, once, with the request
\* its config gives, and its result is the adapter's; its nested chain is
\* never executed.
C37_BothKeysIsRequestStage ==
  \A k \in TopCalls :
    (IsChainCall(k) /\ InFlight(k)) =>
      /\ \A j \in 1..Len(StagesOf(k)) :
           (StagesOf(k)[j].hasConfig /\ StagesOf(k)[j].hasRequest) =>
             /\ \A p \in 1..Len(log) :
                  (log[p].call = k /\ log[p].i = j) => log[p].ev # "request.execute"
             /\ calls[k].i = j => calls[k].pc # "awaitNested"
             /\ calls[k].i >= j =>
                  /\ Dispatches(k, j) = 1
                  /\ \A p \in Positions(k, "createRequest") :
                       log[p].i = j =>
                         log[p].v =
                           Flat(ResolveConfig(StagesOf(k)[j],
                                              IF j = 1 THEN Undefined
                                              ELSE log[ResultPos(k, j - 1)].v))
                  /\ \A p \in Positions(k, "raw") :
                       log[p].i = j =>
                         \E q \in Positions(k, "createRequest") :
                           /\ log[q].i = j
                           /\ log[p].v =
                                getResult(adapters[log[q].a].kind,
                                          log[q].v \o <<"response">>)
      /\ (\A j \in 1..Len(StagesOf(k)) : StagesOf(k)[j].hasConfig) =>
           /\ calls[ChildOf(k)].pc = "free"
           /\ \A p \in 1..Len(log) : log[p].call # ChildOf(k)

C37_Witness ==
  /\ calls["top"].pc = "settling"
  /\ calls["top"].status = "resolved"
  /\ Len(StagesOf("top")) = 2
  /\ \A j \in 1..2 : StagesOf("top")[j].hasConfig /\ StagesOf("top")[j].hasRequest
  /\ StagesOf("top")[2].config = "factory"
  /\ Dispatches("top", 1) = 1
  /\ Dispatches("top", 2) = 1
  /\ calls["nested"].pc = "free"


FinishHandlerRan(k) ==
  chains[calls[k].chain].finishHandler => Len(EventsOf(k, "finishHandler")) = 1

\* C38: when every dispatch, backoff delay, mapper and nested chain a call
\* awaits settles, and every retry policy has a finite maxRetries, every
\* execute() / executeAll() call in flight (the nested chain's included)
\* eventually settles, and when it has settled its finish handler has run,
\* once.
C38_EveryCallSettles ==
  \A k \in LiveCalls :
    InFlight(k) ~> (calls[k].pc = "settled" /\ FinishHandlerRan(k))

\* a call that ran a nested chain, then exhausted its retries, has settled
\* rejected, and its finish handler and the nested chain's have run
C38_Witness ==
  /\ calls["top"].pc = "settled"
  /\ calls["top"].status = "rejected"
  /\ Len(calls["top"].retries) = AlwaysPolicy.maxRetries
  /\ Len(EventsOf("top", "finishHandler")) = 1
  /\ calls["nested"].pc = "settled"
  /\ Len(EventsOf("nested", "finishHandler")) = 1

====
